---- MODULE Spec2Model ----
(***************************************************************************)
(* A model of the Result pattern library: the two Result variants          *)
(* (OkResult / ErrorResult), their operations, the error-details classes,  *)
(* the ResultFactory and the console logger the factory calls.             *)
(*                                                                         *)
(* Objects live in two heaps (results, details) and are named by their     *)
(* index, so "the very same instance" is equality of indices.  Every       *)
(* method is an operator from a machine state m = [results, details, log,  *)
(* calls] to an outcome [m, kind, ret, thrown]: kind "result" (ret is a    *)
(* Result index), "value" (ret is a plain value) or "throw" (thrown is the *)
(* JavaScript value that reaches the caller), "details" (ret is a details  *)
(* index), "null", "error" (an Error object, held in thrown, is returned)  *)
(* or "tuple" (ret and snd are the two components).                        *)
(***************************************************************************)
EXTENDS Integers, Sequences, FiniteSets, TLC

VARIABLES results, details, log, calls, cur, last, steps, chain, pending, wrapper, probe

vars == <<results, details, log, calls, cur, last, steps, chain, pending, wrapper, probe>>

(***************************************************************************)
(* Bounds of the model.                                                    *)
(***************************************************************************)
MaxSteps == 2
MaxVal == 1
MaxCalls == 2

(***************************************************************************)
(* JavaScript values.                                                      *)
(***************************************************************************)
\* the string-typed fields hold UNDEF where the program holds undefined
UNDEF == "<undefined>"
\* OkResult.errorDetails of a Success: no details instance
NoDetails == 0
\* the value undefined where the model holds numbers
UndefinedValue == -1

JsString(s) == [ty |-> "string", cls |-> "String", text |-> s, cause |-> "none", circular |-> FALSE, hasToString |-> TRUE]
JsUndefined == [ty |-> "undefined", cls |-> "", text |-> "", cause |-> "none", circular |-> FALSE, hasToString |-> FALSE]
JsNull == [ty |-> "object", cls |-> "null", text |-> "", cause |-> "none", circular |-> FALSE, hasToString |-> FALSE]
JsNumber == [ty |-> "number", cls |-> "Number", text |-> "42", cause |-> "none", circular |-> FALSE, hasToString |-> TRUE]
JsError(c, msg, cause) == [ty |-> "object", cls |-> c, text |-> msg, cause |-> cause, circular |-> FALSE, hasToString |-> TRUE]
JsObject(circ, ts) == [ty |-> "object", cls |-> "Object", text |-> "", cause |-> "none", circular |-> circ, hasToString |-> ts]

\* the values a callback of the model may throw
Thrown ==
  { JsString("bad"),
    JsUndefined,
    JsError("Error", "boom", "none"),
    JsError("AssertionFailedError", "guard", "none"),
    JsError("Error", "boom", "bigint") }

\* every value the model hands to toErrorString
JsValues ==
  Thrown \cup
  { JsNull, JsNumber, JsString("boom"), JsObject(FALSE, TRUE), JsObject(TRUE, TRUE),
    JsObject(TRUE, FALSE), JsError("Error", "boom", "circular") }

StringUtils_isString(v) == v.ty = "string"

ObjectUtils_isNullOrUndefined(v) == v = JsNull \/ v = JsUndefined

ObjectUtils_isTypeOfObject(v) == v # JsNull /\ v.ty = "object"

\* error instanceof Error
IsErrorInstance(v) == v.ty = "object" /\ v.cls \in {"Error", "AssertionFailedError", "TypeError"}

AssertionFailedError_isInstance(v) ==
  IF ObjectUtils_isNullOrUndefined(v) \/ ~ObjectUtils_isTypeOfObject(v) THEN FALSE
  ELSE v.cls = "AssertionFailedError"

\* `${x}` of a string-typed field
Tpl(s) == IF s = UNDEF THEN "undefined" ELSE s

(***************************************************************************)
(* ErrorUtils.toErrorString: [threw, s].  threw is TRUE when the call      *)
(* ends with an exception (JSON.stringify outside the try block, or the    *)
(* String(error) of the catch block); s is the returned string, UNDEF when *)
(* JSON.stringify returns undefined.                                       *)
(***************************************************************************)
JSON_stringify(v) ==
  CASE v.ty = "undefined" -> [threw |-> FALSE, s |-> UNDEF]
    [] v = JsNull -> [threw |-> FALSE, s |-> "null"]
    [] v.ty = "number" -> [threw |-> FALSE, s |-> v.text]
    [] v.ty = "string" -> [threw |-> FALSE, s |-> "\"" \o v.text \o "\""]
    [] IsErrorInstance(v) -> [threw |-> FALSE, s |-> "{}"]
    [] OTHER -> IF v.circular THEN [threw |-> TRUE, s |-> UNDEF] ELSE [threw |-> FALSE, s |-> "{}"]

String_of(v) ==
  CASE v.ty = "string" -> [threw |-> FALSE, s |-> v.text]
    [] v.ty = "undefined" -> [threw |-> FALSE, s |-> "undefined"]
    [] v = JsNull -> [threw |-> FALSE, s |-> "null"]
    [] v.ty = "number" -> [threw |-> FALSE, s |-> v.text]
    [] IsErrorInstance(v) -> [threw |-> FALSE, s |-> v.cls \o ": " \o v.text]
    [] OTHER -> IF v.hasToString THEN [threw |-> FALSE, s |-> "[object Object]"] ELSE [threw |-> TRUE, s |-> UNDEF]

ErrorUtils_toErrorString(error) ==
  IF StringUtils_isString(error) THEN String_of(error)
  ELSE IF IsErrorInstance(error) THEN
    IF error.cause \in {"bigint", "circular"} THEN [threw |-> TRUE, s |-> UNDEF]
    ELSE [threw |-> FALSE,
          s |-> "{\"message\":\"" \o error.text \o "\",\"name\":\"" \o error.cls \o "\",\"stack\":\"...\"}"]
  ELSE
    LET j == JSON_stringify(error)
    IN IF j.threw THEN String_of(error) ELSE j

(***************************************************************************)
(* Machine states and outcomes.                                            *)
(***************************************************************************)
Machine == [results |-> results, details |-> details, log |-> log, calls |-> calls]

Return(m, k, r) == [m |-> m, kind |-> k, ret |-> r, snd |-> NoDetails, thrown |-> JsUndefined]

Throw(m, x) == [m |-> m, kind |-> "throw", ret |-> UndefinedValue, snd |-> NoDetails, thrown |-> x]

\* the TypeError JSON.stringify / String() raise
SerializeTypeError == JsError("TypeError", "cannot serialize", "none")

(***************************************************************************)
(* Caller options: StandardLogPropertiesCore & { log?: boolean }.          *)
(***************************************************************************)
Options(hasCtx, ctx, eid, cid, lg) ==
  [hasContext |-> hasCtx, context |-> ctx, errorInstanceId |-> eid, correlationId |-> cid, log |-> lg]

(***************************************************************************)
(* LoggingUtils and ConsoleLogger.                                         *)
(***************************************************************************)
RECURSIVE Join(_, _)
Join(seq, sep) ==
  IF Len(seq) = 0 THEN ""
  ELSE IF Len(seq) = 1 THEN seq[1]
  ELSE seq[1] \o sep \o Join(Tail(seq), sep)

LoggingUtils_formatStandardCallerContext(hasCtx, callerContext) ==
  IF ~hasCtx \/ Len(callerContext) = 0 THEN "UNKNOWN CONTEXT"
  ELSE Join(callerContext, ".")

\* a truthy string-typed field
Truthy(s) == s # UNDEF /\ s # ""

\* !message
Falsy(v) == v = JsUndefined \/ v = JsNull \/ (v.ty = "string" /\ v.text = "")

ConsoleLogger_formatLogMessage(prefixText, context, message) ==
  LET formattedContext == LoggingUtils_formatStandardCallerContext(context.hasContext, context.context)
      f0 == prefixText \o ": " \o formattedContext
      f1 == IF Truthy(context.correlationId) THEN f0 \o " - CorrelationId: " \o context.correlationId ELSE f0
      f2 == IF Truthy(context.errorInstanceId) THEN f1 \o " - ErrorInstanceId: " \o context.errorInstanceId ELSE f1
  IN IF Falsy(message) \/ StringUtils_isString(message)
     THEN [threw |-> FALSE, s |-> IF Falsy(message) THEN f2 ELSE f2 \o " - " \o message.text]
     ELSE LET t == ErrorUtils_toErrorString(message)
          IN IF t.threw THEN [threw |-> TRUE, s |-> UNDEF]
             ELSE [threw |-> FALSE, s |-> f2 \o Tpl(t.s)]

LogEntry(level, prefixText, context, formatted, params) ==
  [level |-> level, prefix |-> prefixText, ctx |-> context, formatted |-> formatted,
   params |-> params, origin |-> "core"]

\* console.error(this._formatLogMessage(...), ...optionalParams)
ConsoleLogger_errorCore(m, prefixText, context, message, params) ==
  LET f == ConsoleLogger_formatLogMessage(prefixText, context, message)
  IN IF f.threw THEN Throw(m, SerializeTypeError)
     ELSE Return([m EXCEPT !.log = Append(@, LogEntry("error", prefixText, context, f.s, params))],
                 "value", UndefinedValue)

\* console.debug(this._formatLogMessage(...), ...optionalParams)
ConsoleLogger_debugCore(m, prefixText, context, message, params) ==
  LET f == ConsoleLogger_formatLogMessage(prefixText, context, message)
  IN IF f.threw THEN Throw(m, SerializeTypeError)
     ELSE Return([m EXCEPT !.log = Append(@, LogEntry("debug", prefixText, context, f.s, params))],
                 "value", UndefinedValue)

ConsoleLogger_technicalError(m, context, message, params) ==
  ConsoleLogger_errorCore(m, "TECHNICAL_ERROR", context, message, params)

ConsoleLogger_assertionFailed(m, context, message, params) ==
  ConsoleLogger_errorCore(m, "ASSERTION_FAILED", context, message, params)

ConsoleLogger_debug(m, context, message, params) ==
  ConsoleLogger_debugCore(m, "DEBUG", context, message, params)


(***************************************************************************)
(* Error details (AbstractErrorResultDetails and its five subclasses).     *)
(***************************************************************************)
defaultErrorMessage == "Sorry, something went wrong."

\* ErrorResultDetailsDiscriminantTags, keyed by class
ErrorResultDetailsDiscriminantTags ==
  [ ApiErrorResultDetails |-> "ApiError",
    AssertionFailedErrorResultDetails |-> "AssertionFailedError",
    ShortCircuitedErrorResultDetails |-> "ShortCircuitedError",
    TechnicalErrorResultDetails |-> "TechnicalError",
    UserErrorResultDetails |-> "UserError" ]

DetailsClasses == DOMAIN ErrorResultDetailsDiscriminantTags

ConstructorOptions(hasCtx, ctx, code, msg, eid, cid) ==
  [hasContext |-> hasCtx, context |-> ctx, errorCode |-> code, errorMessage |-> msg,
   errorInstanceId |-> eid, correlationId |-> cid]

\* the API error response: title?, detail?, instance?, and extension fields
ApiResponse(title, detail, instance, ext) ==
  [title |-> title, detail |-> detail, instance |-> instance, ext |-> ext]

NoResponse == ApiResponse(UNDEF, UNDEF, UNDEF, UNDEF)

\* new <cls>(options): the fields the constructor of the base class stores
AbstractErrorResultDetails(cls, options, response) ==
  [ cls |-> cls,
    discriminantTag |-> ErrorResultDetailsDiscriminantTags[cls],
    name |-> cls,
    hasContext |-> options.hasContext,
    context |-> options.context,
    errorCode |-> options.errorCode,
    errorMessage |-> options.errorMessage,
    errorInstanceId |-> options.errorInstanceId,
    correlationId |-> options.correlationId,
    errorResponse |-> response ]

\* allocate a details instance; the outcome's ret is its index
NewErrorResultDetails(m, cls, options) ==
  Return([m EXCEPT !.details = Append(@, AbstractErrorResultDetails(cls, options, NoResponse))],
         "value", Len(m.details) + 1)

\* a ?? b on string-typed fields
Nullish(a, b) == IF a = UNDEF THEN b ELSE a

\* the constructor preferring the response's detail to its title
NewApiErrorResultDetails_DetailFirst(m, options, apiErrorResponse) ==
  LET constructorOptions ==
        ConstructorOptions(options.hasContext, options.context, options.errorCode,
                           Nullish(apiErrorResponse.detail, apiErrorResponse.title),
                           apiErrorResponse.instance, options.correlationId)
  IN Return([m EXCEPT !.details =
               Append(@, AbstractErrorResultDetails("ApiErrorResultDetails", constructorOptions, apiErrorResponse))],
            "value", Len(m.details) + 1)

NewApiErrorResultDetails(m, options, apiErrorResponse) ==
  LET constructorOptions ==
        ConstructorOptions(options.hasContext, options.context, options.errorCode,
                           Nullish(apiErrorResponse.title, apiErrorResponse.detail),
                           apiErrorResponse.instance, options.correlationId)
  IN Return([m EXCEPT !.details =
               Append(@, AbstractErrorResultDetails("ApiErrorResultDetails", constructorOptions, apiErrorResponse))],
            "value", Len(m.details) + 1)

\* get errorMessage()
Details_errorMessage(d) == Nullish(d.errorMessage, defaultErrorMessage)

\* ErrorUtils._errorInstanceIdCharacters
ErrorUtils_errorInstanceIdCharacters ==
  << "A", "B", "C", "D", "E", "F", "G", "H", "I", "J", "K", "L", "M", "N", "O", "P", "Q", "R",
     "S", "T", "U", "V", "W", "X", "Y", "Z", "0", "1", "2", "3", "4", "5", "6", "7", "8", "9" >>

\* pickCharacter, for r = Math.floor(Math.random() * 36)
ErrorUtils_pickCharacter(r) == ErrorUtils_errorInstanceIdCharacters[r + 1]

\* createErrorInstanceId, for the eight draws r
ErrorUtils_createErrorInstanceId(r) ==
  LET c(i) == ErrorUtils_pickCharacter(r[i])
  IN c(1) \o c(2) \o c(3) \o c(4) \o "-" \o c(5) \o c(6) \o c(7) \o c(8)

\* a string outcome: the text is carried as a string value
ReturnString(m, text) ==
  [m |-> m, kind |-> "string", ret |-> UndefinedValue, snd |-> NoDetails, thrown |-> JsString(text)]

\* the getter generating an id at every read
AbstractErrorResultDetails_errorInstanceId_Regenerating(m, d, r) ==
  LET id == ErrorUtils_createErrorInstanceId(r)
  IN ReturnString([m EXCEPT !.details[d].errorInstanceId = id], id)

\* get errorInstanceId() of the details instance d; r are the draws createErrorInstanceId
\* would make
AbstractErrorResultDetails_errorInstanceId(m, d, r) ==
  IF m.details[d].errorInstanceId = UNDEF
  THEN LET id == ErrorUtils_createErrorInstanceId(r)
       IN ReturnString([m EXCEPT !.details[d].errorInstanceId = id], id)
  ELSE ReturnString(m, m.details[d].errorInstanceId)

\* formatErrorResult with the parts joined by ": "
AbstractErrorResultDetails_formatErrorResult_Colon(d) ==
  LoggingUtils_formatStandardCallerContext(d.hasContext, d.context)
    \o ": " \o (IF d.errorCode = UNDEF THEN "" ELSE d.errorCode) \o ": " \o Details_errorMessage(d)

\* formatErrorResult() of the details record d
AbstractErrorResultDetails_formatErrorResult(d) ==
  LET formattedContext == LoggingUtils_formatStandardCallerContext(d.hasContext, d.context)
      errorCode == IF d.errorCode = UNDEF THEN "" ELSE d.errorCode
      errorMessage == IF Details_errorMessage(d) = UNDEF THEN "" ELSE Details_errorMessage(d)
  IN formattedContext \o " - " \o errorCode \o " - " \o errorMessage

(***************************************************************************)
(* The two Result classes.                                                 *)
(***************************************************************************)
ResultDiscriminantTags == [OkResult |-> "OkResult", ErrorResult |-> "ErrorResult"]

OkResultFields(okValue) ==
  [ cls |-> "OkResult",
    discriminantTag |-> ResultDiscriminantTags.OkResult,
    name |-> "OkResult",
    isError |-> FALSE,
    isOk |-> TRUE,
    errorDetails |-> NoDetails,
    value |-> okValue ]

\* ErrorResult with the flags of OkResult
ErrorResultFields_OkFlags(errorDetails) ==
  [ cls |-> "ErrorResult",
    discriminantTag |-> ResultDiscriminantTags.ErrorResult,
    name |-> "ErrorResult",
    isError |-> TRUE,
    isOk |-> TRUE,
    errorDetails |-> errorDetails,
    value |-> UndefinedValue ]

ErrorResultFields(errorDetails) ==
  [ cls |-> "ErrorResult",
    discriminantTag |-> ResultDiscriminantTags.ErrorResult,
    name |-> "ErrorResult",
    isError |-> TRUE,
    isOk |-> FALSE,
    errorDetails |-> errorDetails,
    value |-> UndefinedValue ]

\* new OkResult(okValue)
NewOkResult(m, okValue) ==
  Return([m EXCEPT !.results = Append(@, OkResultFields(okValue))], "result", Len(m.results) + 1)

\* new ErrorResult(errorDetails)
NewErrorResult(m, errorDetails) ==
  Return([m EXCEPT !.results = Append(@, ErrorResultFields(errorDetails))], "result", Len(m.results) + 1)


(***************************************************************************)
(* ResultFactory: the creation helpers.                                    *)
(***************************************************************************)
classContext == "ResultFactory"

\* the amended options with the prefix after the caller's context chain
AmendedOptions_Appended(options, contextPrefix) ==
  [options EXCEPT !.hasContext = TRUE,
                  !.context = IF options.hasContext THEN options.context \o <<contextPrefix>>
                              ELSE <<contextPrefix>>]

\* { ...options, context: options.context ? [contextPrefix, ...options.context] : [contextPrefix] }
AmendedOptions(options, contextPrefix) ==
  [options EXCEPT !.hasContext = TRUE,
                  !.context = IF options.hasContext THEN <<contextPrefix>> \o options.context
                              ELSE <<contextPrefix>>]

\* ErrorUtils.toErrorString(optionalParams), an array of strings
ParamsToString(optionalParams) ==
  "[" \o Join([i \in 1..Len(optionalParams) |-> "\"" \o optionalParams[i] \o "\""], ",") \o "]"

\* _createErrorResultConstructorOptions given the options amended for the log call
ResultFactory_createErrorResultConstructorOptions_Amended(options, errorCode, message, optionalParams) ==
  LET t == ErrorUtils_toErrorString(message)
      amended == AmendedOptions(options, classContext)
  IN IF t.threw THEN [threw |-> TRUE, opts |-> ConstructorOptions(FALSE, <<>>, UNDEF, UNDEF, UNDEF, UNDEF)]
     ELSE [threw |-> FALSE,
           opts |-> ConstructorOptions(amended.hasContext, amended.context, errorCode,
                                       IF Len(optionalParams) > 0
                                       THEN Tpl(t.s) \o " - " \o ParamsToString(optionalParams)
                                       ELSE t.s,
                                       options.errorInstanceId, options.correlationId)]

\* [threw, opts]
ResultFactory_createErrorResultConstructorOptions(options, errorCode, message, optionalParams) ==
  LET t == ErrorUtils_toErrorString(message)
  IN IF t.threw THEN [threw |-> TRUE, opts |-> ConstructorOptions(FALSE, <<>>, UNDEF, UNDEF, UNDEF, UNDEF)]
     ELSE LET formattedMessage ==
                IF Len(optionalParams) > 0 THEN Tpl(t.s) \o " - " \o ParamsToString(optionalParams)
                ELSE t.s
          IN [threw |-> FALSE,
              opts |-> ConstructorOptions(options.hasContext, options.context, errorCode,
                                          formattedMessage, options.errorInstanceId,
                                          options.correlationId)]

\* the common tail of the four message-based helpers: build the details, wrap them
CreateErrorResult(m, cls, options, errorCode, message, optionalParams) ==
  LET co == ResultFactory_createErrorResultConstructorOptions(options, errorCode, message, optionalParams)
  IN IF co.threw THEN Throw(m, SerializeTypeError)
     ELSE LET d == NewErrorResultDetails(m, cls, co.opts)
          IN NewErrorResult(d.m, d.ret)

ResultFactory_ok(m, okValue) == NewOkResult(m, okValue)

\* options.errorCode travels beside the options record in the model
ResultFactory_apiErrorNoLog(m, options, errorCode, response) ==
  LET d == NewApiErrorResultDetails(m, options @@ [errorCode |-> errorCode], response)
  IN NewErrorResult(d.m, d.ret)

ConsoleLogger_apiError(m, context, errorDetails, params) ==
  ConsoleLogger_errorCore(m, "API_ERROR", context, errorDetails, params)

\* the response is a plain object parsed from JSON: it always serializes
ResultFactory_apiError(m, options, errorCode, response) ==
  LET logged ==
        IF options.log # "false"
        THEN ConsoleLogger_apiError(
               m, AmendedOptions(options, classContext \o " - ApiErrorResult"), JsObject(FALSE, TRUE),
               <<"ErrorCode: " \o Tpl(errorCode)>>)
        ELSE Return(m, "value", UndefinedValue)
  IN IF logged.kind = "throw" THEN logged
     ELSE LET d == NewApiErrorResultDetails(logged.m, options @@ [errorCode |-> errorCode], response)
          IN NewErrorResult(d.m, d.ret)

ResultFactory_assertionFailedError(m, options, errorCode, message, optionalParams) ==
  LET logged ==
        IF options.log # "false"
        THEN ConsoleLogger_assertionFailed(
               m, AmendedOptions(options, classContext \o " - AssertionFailedErrorResult"), message,
               <<"ErrorCode: " \o Tpl(errorCode)>> \o optionalParams)
        ELSE Return(m, "value", UndefinedValue)
  IN IF logged.kind = "throw" THEN logged
     ELSE CreateErrorResult(logged.m, "AssertionFailedErrorResultDetails", options, errorCode, message, optionalParams)

ResultFactory_technicalError(m, options, errorCode, message, optionalParams) ==
  LET logged ==
        IF options.log # "false"
        THEN ConsoleLogger_technicalError(
               m, AmendedOptions(options, classContext \o " - TechnicalErrorResult"), message,
               <<"ErrorCode: " \o Tpl(errorCode)>> \o optionalParams)
        ELSE Return(m, "value", UndefinedValue)
  IN IF logged.kind = "throw" THEN logged
     ELSE CreateErrorResult(logged.m, "TechnicalErrorResultDetails", options, errorCode, message, optionalParams)

ResultFactory_userError(m, options, errorCode, message) ==
  LET logged ==
        IF options.log # "false"
        THEN ConsoleLogger_debug(
               m, AmendedOptions(options, classContext \o " - UserErrorResult"), message,
               <<"ErrorCode: " \o Tpl(errorCode)>>)
        ELSE Return(m, "value", UndefinedValue)
  IN IF logged.kind = "throw" THEN logged
     ELSE CreateErrorResult(logged.m, "UserErrorResultDetails", options, errorCode, message, <<>>)

ResultFactory_shortCircuitedError(m, options, errorCode, message) ==
  LET logged ==
        IF options.log # "false"
        THEN ConsoleLogger_debug(
               m, AmendedOptions(options, classContext \o " - ShortCircuitedErrorResult"), message,
               <<"ErrorCode: " \o Tpl(errorCode)>>)
        ELSE Return(m, "value", UndefinedValue)
  IN IF logged.kind = "throw" THEN logged
     ELSE CreateErrorResult(logged.m, "ShortCircuitedErrorResultDetails", options, errorCode, message, <<>>)

ResultFactory_fromErrorObject(m, logProperties, err) ==
  IF ObjectUtils_isNullOrUndefined(err) \/ ~ObjectUtils_isTypeOfObject(err)
  THEN LET t == ErrorUtils_toErrorString(err)
       IN IF t.threw THEN Throw(m, SerializeTypeError)
          ELSE ResultFactory_technicalError(m, logProperties, UNDEF,
                 IF t.s = UNDEF THEN JsUndefined ELSE JsString(t.s), <<>>)
  ELSE IF AssertionFailedError_isInstance(err)
  THEN ResultFactory_assertionFailedError(m, logProperties, UNDEF, err, <<>>)
  ELSE LET t == ErrorUtils_toErrorString(err)
       IN IF t.threw THEN Throw(m, SerializeTypeError)
          ELSE ResultFactory_technicalError(m, logProperties, UNDEF,
                 IF t.s = UNDEF THEN JsUndefined ELSE JsString(t.s), <<>>)


(***************************************************************************)
(* The callbacks a caller passes.  A callback is a record that says what   *)
(* it does when invoked; every invocation appends an entry to calls: the   *)
(* role it was passed in, the callback, the argument it received (arg: a   *)
(* value or a details index; x: a caught value) and how it ended.          *)
(*   value mappers    v => v:        id, succ (v => v + 1), throw          *)
(*   details mappers  e => e:        id, remap (a new User details), throw *)
(*   folders          e => value:    const (e => 0), throw                 *)
(*   binders          ... => Result: ok, fail (a new User failure), throw  *)
(*   thunks           () => value:   const, throw                          *)
(*   error factories  err => ErrorResult: make (a new Technical failure),  *)
(*                    makeLog (the same, after logging it), throw          *)
(***************************************************************************)
Fn(k, x) == [kind |-> k, x |-> x]

Throwers == {Fn("throw", x) : x \in Thrown}

ValueMappers == {Fn("id", JsUndefined), Fn("succ", JsUndefined)} \cup Throwers

DetailsMappers == {Fn("id", JsUndefined), Fn("remap", JsUndefined)} \cup Throwers

Folders == {Fn("const", JsUndefined)} \cup Throwers

Binders == {Fn("ok", JsUndefined), Fn("fail", JsUndefined)} \cup Throwers

Factories ==
  {Fn("make", JsUndefined), Fn("makeLog", JsUndefined), Fn("throw", JsError("Error", "factory", "none"))}

\* the outcome o of the callback's body, recorded as one more invocation
Called(o, role, f, arg, x) ==
  [o EXCEPT !.m.calls = Append(@, [role |-> role, fn |-> f, arg |-> arg, x |-> x,
                                   kind |-> o.kind, ret |-> o.ret, thrown |-> o.thrown])]

Succ(v) == IF v = UndefinedValue THEN UndefinedValue ELSE (v + 1) % (MaxVal + 1)

CallbackOptions == ConstructorOptions(TRUE, <<"Callback">>, "CB", "callback failed", "CB-1", UNDEF)

\* invoke a value => value callback
CallValueMapper(m, role, f, v) ==
  Called(CASE f.kind = "id" -> Return(m, "value", v)
           [] f.kind = "succ" -> Return(m, "value", Succ(v))
           [] OTHER -> Throw(m, f.x),
         role, f, v, JsUndefined)

\* invoke a details => details callback (e is a details index)
CallDetailsMapper(m, role, f, e) ==
  Called(CASE f.kind = "id" -> Return(m, "value", e)
           [] f.kind = "remap" ->
                NewErrorResultDetails(m, "UserErrorResultDetails",
                  [CallbackOptions EXCEPT !.errorMessage = Details_errorMessage(m.details[e])])
           [] OTHER -> Throw(m, f.x),
         role, f, e, JsUndefined)

\* invoke a details => value callback
CallFolder(m, role, f, e) ==
  Called(IF f.kind = "const" THEN Return(m, "value", 0) ELSE Throw(m, f.x),
         role, f, e, JsUndefined)

\* invoke a callback that returns a Result (arg is a value or a details index)
CallBinder(m, role, f, arg, isValue) ==
  Called(CASE f.kind = "ok" -> NewOkResult(m, IF isValue THEN Succ(arg) ELSE 0)
           [] f.kind = "fail" ->
                LET d == NewErrorResultDetails(m, "UserErrorResultDetails", CallbackOptions)
                IN NewErrorResult(d.m, d.ret)
           [] OTHER -> Throw(m, f.x),
         role, f, arg, JsUndefined)

\* invoke a function of one argument: echo (a => a) or throw
CallFunction(m, role, fn, a) ==
  Called(IF fn.kind = "echo" THEN Return(m, "value", a) ELSE Throw(m, fn.x),
         role, fn, a, JsUndefined)

\* () => fn(...args), the function a wrapper hands to tryCatch*
Closure(fn, args) == [kind |-> "closure", fn |-> fn, args |-> args]

\* invoke a () => value callback
CallThunk(m, role, f) ==
  IF f.kind = "closure" THEN CallFunction(m, role, f.fn, f.args)
  ELSE Called(IF f.kind = "const" THEN Return(m, "value", f.v) ELSE Throw(m, f.x),
              role, [kind |-> f.kind, x |-> f.x], UndefinedValue, JsUndefined)

CallerLogEntry ==
  [level |-> "error", prefix |-> "CALLER", ctx |-> Options(FALSE, <<>>, UNDEF, UNDEF, "undefined"),
   formatted |-> "caller", params |-> <<>>, origin |-> "caller"]

\* invoke an ErrorResultFactory with the caught value
CallFactory(m, f, err) ==
  Called(IF f.kind = "throw" THEN Throw(m, f.x)
         ELSE LET m1 == IF f.kind = "makeLog" THEN [m EXCEPT !.log = Append(@, CallerLogEntry)] ELSE m
                  d == NewErrorResultDetails(m1, "TechnicalErrorResultDetails",
                         [CallbackOptions EXCEPT !.errorCode = "FACTORY", !.errorMessage = String_of(err).s])
              IN NewErrorResult(d.m, d.ret),
         "errorResultFactory", f, UndefinedValue, err)

(***************************************************************************)
(* try { ... } catch (err) { ... }: the two catch blocks of the library.   *)
(***************************************************************************)
\* catch (err) { return Result.technicalError(logProperties, 'UNEXPECTED', err); }
CatchDefault(o, logProperties) ==
  IF o.kind = "throw" THEN ResultFactory_technicalError(o.m, logProperties, "UNEXPECTED", o.thrown, <<>>)
  ELSE o

\* catch (err) { return errorResultFactory(err); }
Catch(o, errorResultFactory) ==
  IF o.kind = "throw" THEN CallFactory(o.m, errorResultFactory, o.thrown)
  ELSE o

\* return new OkResult(<the callback's value>), the exception of the callback passing through
WrapOk(o) == IF o.kind = "throw" THEN o ELSE NewOkResult(o.m, o.ret)

(***************************************************************************)
(* OkResult: the operations on a Success (r is its index).                 *)
(***************************************************************************)
OkResult_toVoidResult(m, r) == NewOkResult(m, UndefinedValue)

OkResult_foldNoCatch(m, r, onOk, onError) ==
  CallValueMapper(m, "onOk", onOk, m.results[r].value)

OkResult_foldCatchDefault(m, r, logProperties, onOk, onError) ==
  CatchDefault(CallValueMapper(m, "onOk", onOk, m.results[r].value), logProperties)

OkResult_foldCatch(m, r, onOk, onOkErrorResultFactory, onError) ==
  Catch(CallValueMapper(m, "onOk", onOk, m.results[r].value), onOkErrorResultFactory)

\* mapNoCatch with the try / catch of mapCatchDefault around the callback
OkResult_mapNoCatch_Catching(m, r, onOk) ==
  CatchDefault(WrapOk(CallValueMapper(m, "onOk", onOk, m.results[r].value)),
               Options(FALSE, <<>>, UNDEF, UNDEF, "undefined"))

OkResult_mapNoCatch(m, r, onOk) ==
  WrapOk(CallValueMapper(m, "onOk", onOk, m.results[r].value))

\* mapCatchDefault storing the mapped value in the receiver and returning the receiver
OkResult_mapCatchDefault_InPlace(m, r, logProperties, onOk) ==
  LET o == CallValueMapper(m, "onOk", onOk, m.results[r].value)
  IN IF o.kind = "throw" THEN CatchDefault(o, logProperties)
     ELSE Return([o.m EXCEPT !.results[r].value = o.ret], "result", r)

OkResult_mapCatchDefault(m, r, logProperties, onOk) ==
  CatchDefault(WrapOk(CallValueMapper(m, "onOk", onOk, m.results[r].value)), logProperties)

\* mapCatch with the catch block of mapCatchDefault
OkResult_mapCatch_Default(m, r, onOk, errorResultFactory) ==
  CatchDefault(WrapOk(CallValueMapper(m, "onOk", onOk, m.results[r].value)),
               Options(FALSE, <<>>, UNDEF, UNDEF, "undefined"))

OkResult_mapCatch(m, r, onOk, errorResultFactory) ==
  Catch(WrapOk(CallValueMapper(m, "onOk", onOk, m.results[r].value)), errorResultFactory)

OkResult_mapError(m, r, onError) == Return(m, "result", r)

\* andThenNoCatch wrapping what the callback returns, as mapNoCatch does
OkResult_andThenNoCatch_Wrapping(m, r, onOk) ==
  WrapOk(CallBinder(m, "onOk", onOk, m.results[r].value, TRUE))

OkResult_andThenNoCatch(m, r, onOk) ==
  CallBinder(m, "onOk", onOk, m.results[r].value, TRUE)

OkResult_andThenCatchDefault(m, r, logProperties, onOk) ==
  CatchDefault(CallBinder(m, "onOk", onOk, m.results[r].value, TRUE), logProperties)

OkResult_andThenCatch(m, r, onOk, errorResultFactory) ==
  Catch(CallBinder(m, "onOk", onOk, m.results[r].value, TRUE), errorResultFactory)

OkResult_orElseNoCatch(m, r, onError) == Return(m, "result", r)

OkResult_orElseCatchDefault(m, r, logProperties, onError) == Return(m, "result", r)

OkResult_orElseCatch(m, r, onError, errorResultFactory) == Return(m, "result", r)

(***************************************************************************)
(* ErrorResult: the operations on a Failure (r is its index).              *)
(***************************************************************************)
ErrorResult_foldNoCatch(m, r, onOk, onError) ==
  CallFolder(m, "onError", onError, m.results[r].errorDetails)

ErrorResult_foldCatchDefault(m, r, logProperties, onOk, onError) ==
  CallFolder(m, "onError", onError, m.results[r].errorDetails)

\* foldCatch of a Failure with the try / catch of the Success around onError
ErrorResult_foldCatch_Catching(m, r, onOk, onOkErrorResultFactory, onError) ==
  Catch(CallFolder(m, "onError", onError, m.results[r].errorDetails), onOkErrorResultFactory)

ErrorResult_foldCatch(m, r, onOk, onOkErrorResultFactory, onError) ==
  CallFolder(m, "onError", onError, m.results[r].errorDetails)

\* mapNoCatch of a Failure calling the mapper as the one of a Success does
ErrorResult_mapNoCatch_Calling(m, r, onOk) ==
  WrapOk(CallValueMapper(m, "onOk", onOk, m.results[r].value))

ErrorResult_mapNoCatch(m, r, onOk) == Return(m, "result", r)

ErrorResult_mapCatchDefault(m, r, logProperties, onOk) == Return(m, "result", r)

ErrorResult_mapCatch(m, r, onOk, errorResultFactory) == Return(m, "result", r)

\* mapError storing the mapped details in the receiver and returning the receiver
ErrorResult_mapError_InPlace(m, r, onError) ==
  LET o == CallDetailsMapper(m, "onError", onError, m.results[r].errorDetails)
  IN IF o.kind = "throw" THEN o
     ELSE Return([o.m EXCEPT !.results[r].errorDetails = o.ret], "result", r)

\* return new ErrorResult(onError(this.errorDetails))
ErrorResult_mapError(m, r, onError) ==
  LET o == CallDetailsMapper(m, "onError", onError, m.results[r].errorDetails)
  IN IF o.kind = "throw" THEN o ELSE NewErrorResult(o.m, o.ret)

ErrorResult_andThenNoCatch(m, r, onOk) == Return(m, "result", r)

ErrorResult_andThenCatchDefault(m, r, logProperties, onOk) == Return(m, "result", r)

\* andThenCatch of a Failure returning a copy of the receiver
ErrorResult_andThenCatch_Copying(m, r, onOk, errorResultFactory) ==
  NewErrorResult(m, m.results[r].errorDetails)

ErrorResult_andThenCatch(m, r, onOk, errorResultFactory) == Return(m, "result", r)

ErrorResult_orElseNoCatch(m, r, onError) ==
  CallBinder(m, "onError", onError, m.results[r].errorDetails, FALSE)

ErrorResult_orElseCatchDefault(m, r, logProperties, onError) ==
  CatchDefault(CallBinder(m, "onError", onError, m.results[r].errorDetails, FALSE), logProperties)

ErrorResult_orElseCatch(m, r, onError, errorResultFactory) ==
  Catch(CallBinder(m, "onError", onError, m.results[r].errorDetails, FALSE), errorResultFactory)

(***************************************************************************)
(* Unwrapping: toTuple, valueOr* and errorDetailsOr*.                      *)
(*   error factories  (e) => Error: make (a new Error), throw              *)
(***************************************************************************)
ErrorFactories == {Fn("make", JsUndefined), Fn("throw", JsError("Error", "factory", "none"))}

\* invoke an (errorDetails) => Error callback; what it returns is an Error object
CallErrorFactory(m, f, e) ==
  Called(IF f.kind = "make"
         THEN [Return(m, "error", UndefinedValue) EXCEPT !.thrown = JsError("Error", "nope", "none")]
         ELSE Throw(m, f.x),
         "errorFactory", f, e, JsUndefined)

\* return [this.value, undefined]
OkResult_toTuple(m, r) ==
  [Return(m, "tuple", m.results[r].value) EXCEPT !.snd = NoDetails]

OkResult_valueOrNull(m, r) == Return(m, "value", m.results[r].value)

OkResult_valueOrUndefined(m, r) == Return(m, "value", m.results[r].value)

OkResult_valueOrDefault(m, r, defaultValue) == Return(m, "value", m.results[r].value)

OkResult_valueOrThrow(m, r, errorFactory) == Return(m, "value", m.results[r].value)

\* valueOrElse of a Success calling onError as the one of a Failure does
OkResult_valueOrElse_Calling(m, r, onError) ==
  CallFolder(m, "onError", onError, m.results[r].errorDetails)

OkResult_valueOrElse(m, r, onError) == Return(m, "value", m.results[r].value)

OkResult_errorDetailsOrNull(m, r) == Return(m, "null", UndefinedValue)

OkResult_errorDetailsOrUndefined(m, r) == Return(m, "value", UndefinedValue)

OkResult_errorDetailsOrDefault(m, r, defaultValue) == Return(m, "value", defaultValue)

\* throw errorFactory()
OkResult_errorDetailsOrThrow(m, r, errorFactory) ==
  LET o == CallErrorFactory(m, errorFactory, UndefinedValue)
  IN IF o.kind = "throw" THEN o ELSE Throw(o.m, o.thrown)

\* return onOk()
OkResult_errorDetailsOrElse(m, r, onOk) == CallThunk(m, "onOk", onOk)

\* toTuple of a Failure with the components in the order [errorDetails, undefined]
ErrorResult_toTuple_Swapped(m, r) ==
  [Return(m, "tuple", m.results[r].errorDetails) EXCEPT !.snd = NoDetails]

\* return [undefined, this.errorDetails]
ErrorResult_toTuple(m, r) ==
  [Return(m, "tuple", UndefinedValue) EXCEPT !.snd = m.results[r].errorDetails]

ErrorResult_valueOrNull(m, r) == Return(m, "null", UndefinedValue)

ErrorResult_valueOrUndefined(m, r) == Return(m, "value", UndefinedValue)

ErrorResult_valueOrDefault(m, r, defaultValue) == Return(m, "value", defaultValue)

\* throw errorFactory(this.errorDetails)
ErrorResult_valueOrThrow(m, r, errorFactory) ==
  LET o == CallErrorFactory(m, errorFactory, m.results[r].errorDetails)
  IN IF o.kind = "throw" THEN o ELSE Throw(o.m, o.thrown)

\* return onError(this.errorDetails)
ErrorResult_valueOrElse(m, r, onError) ==
  CallFolder(m, "onError", onError, m.results[r].errorDetails)

ErrorResult_errorDetailsOrNull(m, r) == Return(m, "details", m.results[r].errorDetails)

ErrorResult_errorDetailsOrUndefined(m, r) == Return(m, "details", m.results[r].errorDetails)

ErrorResult_errorDetailsOrDefault(m, r, defaultValue) == Return(m, "details", m.results[r].errorDetails)

ErrorResult_errorDetailsOrThrow(m, r, errorFactory) == Return(m, "details", m.results[r].errorDetails)

ErrorResult_errorDetailsOrElse(m, r, onOk) == Return(m, "details", m.results[r].errorDetails)

(***************************************************************************)
(* AbstractResult: the error-kind guards, inherited by both classes.       *)
(***************************************************************************)
\* object instanceof ctor, for object a details instance or undefined (NoDetails)
ObjectUtils_isInstanceOf(m, ctor, object) ==
  IF object = NoDetails THEN FALSE ELSE m.details[object].cls = ctor

(***************************************************************************)
(* The discriminant tag tables and the build-time check on them.  A table  *)
(* is a function from its keys to its tag values.                          *)
(***************************************************************************)
StandardErrorResultDetailsDiscriminantTags ==
  [ ApiError |-> "ApiError",
    AssertionFailedError |-> "AssertionFailedError",
    ShortCircuitedError |-> "ShortCircuitedError",
    TechnicalError |-> "TechnicalError",
    UserError |-> "UserError" ]

\* typeof T[keyof typeof T]: the union of the values of the table
TagValues(table) == {table[k] : k \in DOMAIN table}

\* { ...Standard, ...Custom }: a key of the custom table replaces the standard entry
MergedErrorResultDetailsDiscriminantTags(custom) ==
  [ k \in DOMAIN StandardErrorResultDetailsDiscriminantTags \cup DOMAIN custom |->
      IF k \in DOMAIN custom THEN custom[k] ELSE StandardErrorResultDetailsDiscriminantTags[k] ]

\* Extract<CustomErrorResultDetailsDiscriminantTag, StandardErrorResultDetailsDiscriminantTag>
DuplicateTagValues(custom) ==
  TagValues(custom) \cap TagValues(StandardErrorResultDetailsDiscriminantTags)

\* AssertNever<DuplicateTagValues> type-checks: the build accepts the custom table
NoDuplicateTagsAllowed(custom) == DuplicateTagValues(custom) = {}

\* a value of type unknown: what typeof says of it, its prototype chain (the constructor
\* names, nearest first), and the discriminantTag field it carries if any
Unknown(kind, prototypes, tag) == [kind |-> kind, chain |-> prototypes, tag |-> tag]

\* new <cls>(...) for one of the details classes, each of which extends the abstract class
InstanceOfClass(cls) ==
  Unknown("object", <<cls, "AbstractErrorResultDetails", "Object">>,
          ErrorResultDetailsDiscriminantTags[cls])

\* new Sub(...) for class Sub extends <cls>
InstanceOfSubclass(cls) ==
  Unknown("object", <<"Sub", cls, "AbstractErrorResultDetails", "Object">>,
          ErrorResultDetailsDiscriminantTags[cls])

\* { discriminantTag, name, context, errorCode, ... }: a literal with the fields of <cls>
PlainObjectLike(cls) == Unknown("object", <<"Object">>, ErrorResultDetailsDiscriminantTags[cls])

\* ObjectUtils.isNullOrUndefined and isTypeOfObject on such a value
Unknown_isNullOrUndefined(value) == value.kind \in {"null", "undefined"}

\* value !== null && typeof value === 'object'
Unknown_isTypeOfObject(value) == value.kind = "object"

\* object instanceof ctor: ctor.prototype is on the prototype chain of object
InstanceOf(object, ctor) == \E i \in DOMAIN object.chain : object.chain[i] = ctor

\* ObjectUtils.isInstanceOf(ctor, object) for object: unknown
ObjectUtils_isInstanceOfUnknown(ctor, object) ==
  IF Unknown_isNullOrUndefined(object) \/ ~Unknown_isTypeOfObject(object) THEN FALSE
  ELSE InstanceOf(object, ctor)

\* static isInstance(object) of the details class cls
ErrorResultDetails_isInstance(cls, object) == ObjectUtils_isInstanceOfUnknown(cls, object)

AbstractResult_isErrorDetailsInstanceOf(m, r, ctor) ==
  m.results[r].isError /\ ObjectUtils_isInstanceOf(m, ctor, m.results[r].errorDetails)

AbstractResult_isApiError(m, r) ==
  AbstractResult_isErrorDetailsInstanceOf(m, r, "ApiErrorResultDetails")

AbstractResult_isAssertionFailedError(m, r) ==
  AbstractResult_isErrorDetailsInstanceOf(m, r, "AssertionFailedErrorResultDetails")

AbstractResult_isTechnicalError(m, r) ==
  AbstractResult_isErrorDetailsInstanceOf(m, r, "TechnicalErrorResultDetails")

\* isUserError testing for the class isApiError tests for
AbstractResult_isUserError_AsApi(m, r) ==
  AbstractResult_isErrorDetailsInstanceOf(m, r, "ApiErrorResultDetails")

AbstractResult_isUserError(m, r) ==
  AbstractResult_isErrorDetailsInstanceOf(m, r, "UserErrorResultDetails")

AbstractResult_isShortCircuitedError(m, r) ==
  AbstractResult_isErrorDetailsInstanceOf(m, r, "ShortCircuitedErrorResultDetails")

\* the outcome of a method that returns a boolean
ReturnBoolean(m, b) == Return(m, "boolean", IF b THEN 1 ELSE 0)

(***************************************************************************)
(* Dynamic dispatch on the class of the receiver.                          *)
(***************************************************************************)
IsOkResult(m, r) == m.results[r].cls = "OkResult"

foldNoCatch(m, r, onOk, onError) ==
  IF IsOkResult(m, r) THEN OkResult_foldNoCatch(m, r, onOk, onError)
  ELSE ErrorResult_foldNoCatch(m, r, onOk, onError)

foldCatchDefault(m, r, logProperties, onOk, onError) ==
  IF IsOkResult(m, r) THEN OkResult_foldCatchDefault(m, r, logProperties, onOk, onError)
  ELSE ErrorResult_foldCatchDefault(m, r, logProperties, onOk, onError)

foldCatch(m, r, onOk, onOkErrorResultFactory, onError) ==
  IF IsOkResult(m, r) THEN OkResult_foldCatch(m, r, onOk, onOkErrorResultFactory, onError)
  ELSE ErrorResult_foldCatch(m, r, onOk, onOkErrorResultFactory, onError)

mapNoCatch(m, r, onOk) ==
  IF IsOkResult(m, r) THEN OkResult_mapNoCatch(m, r, onOk) ELSE ErrorResult_mapNoCatch(m, r, onOk)

mapCatchDefault(m, r, logProperties, onOk) ==
  IF IsOkResult(m, r) THEN OkResult_mapCatchDefault(m, r, logProperties, onOk)
  ELSE ErrorResult_mapCatchDefault(m, r, logProperties, onOk)

mapCatch(m, r, onOk, errorResultFactory) ==
  IF IsOkResult(m, r) THEN OkResult_mapCatch(m, r, onOk, errorResultFactory)
  ELSE ErrorResult_mapCatch(m, r, onOk, errorResultFactory)

mapError(m, r, onError) ==
  IF IsOkResult(m, r) THEN OkResult_mapError(m, r, onError) ELSE ErrorResult_mapError(m, r, onError)

andThenNoCatch(m, r, onOk) ==
  IF IsOkResult(m, r) THEN OkResult_andThenNoCatch(m, r, onOk) ELSE ErrorResult_andThenNoCatch(m, r, onOk)

andThenCatchDefault(m, r, logProperties, onOk) ==
  IF IsOkResult(m, r) THEN OkResult_andThenCatchDefault(m, r, logProperties, onOk)
  ELSE ErrorResult_andThenCatchDefault(m, r, logProperties, onOk)

andThenCatch(m, r, onOk, errorResultFactory) ==
  IF IsOkResult(m, r) THEN OkResult_andThenCatch(m, r, onOk, errorResultFactory)
  ELSE ErrorResult_andThenCatch(m, r, onOk, errorResultFactory)

orElseNoCatch(m, r, onError) ==
  IF IsOkResult(m, r) THEN OkResult_orElseNoCatch(m, r, onError) ELSE ErrorResult_orElseNoCatch(m, r, onError)

orElseCatchDefault(m, r, logProperties, onError) ==
  IF IsOkResult(m, r) THEN OkResult_orElseCatchDefault(m, r, logProperties, onError)
  ELSE ErrorResult_orElseCatchDefault(m, r, logProperties, onError)

orElseCatch(m, r, onError, errorResultFactory) ==
  IF IsOkResult(m, r) THEN OkResult_orElseCatch(m, r, onError, errorResultFactory)
  ELSE ErrorResult_orElseCatch(m, r, onError, errorResultFactory)

toTuple(m, r) == IF IsOkResult(m, r) THEN OkResult_toTuple(m, r) ELSE ErrorResult_toTuple(m, r)

valueOrNull(m, r) == IF IsOkResult(m, r) THEN OkResult_valueOrNull(m, r) ELSE ErrorResult_valueOrNull(m, r)

valueOrUndefined(m, r) ==
  IF IsOkResult(m, r) THEN OkResult_valueOrUndefined(m, r) ELSE ErrorResult_valueOrUndefined(m, r)

valueOrDefault(m, r, defaultValue) ==
  IF IsOkResult(m, r) THEN OkResult_valueOrDefault(m, r, defaultValue)
  ELSE ErrorResult_valueOrDefault(m, r, defaultValue)

valueOrThrow(m, r, errorFactory) ==
  IF IsOkResult(m, r) THEN OkResult_valueOrThrow(m, r, errorFactory)
  ELSE ErrorResult_valueOrThrow(m, r, errorFactory)

valueOrElse(m, r, onError) ==
  IF IsOkResult(m, r) THEN OkResult_valueOrElse(m, r, onError) ELSE ErrorResult_valueOrElse(m, r, onError)

errorDetailsOrNull(m, r) ==
  IF IsOkResult(m, r) THEN OkResult_errorDetailsOrNull(m, r) ELSE ErrorResult_errorDetailsOrNull(m, r)

errorDetailsOrUndefined(m, r) ==
  IF IsOkResult(m, r) THEN OkResult_errorDetailsOrUndefined(m, r)
  ELSE ErrorResult_errorDetailsOrUndefined(m, r)

errorDetailsOrDefault(m, r, defaultValue) ==
  IF IsOkResult(m, r) THEN OkResult_errorDetailsOrDefault(m, r, defaultValue)
  ELSE ErrorResult_errorDetailsOrDefault(m, r, defaultValue)

errorDetailsOrThrow(m, r, errorFactory) ==
  IF IsOkResult(m, r) THEN OkResult_errorDetailsOrThrow(m, r, errorFactory)
  ELSE ErrorResult_errorDetailsOrThrow(m, r, errorFactory)

errorDetailsOrElse(m, r, onOk) ==
  IF IsOkResult(m, r) THEN OkResult_errorDetailsOrElse(m, r, onOk)
  ELSE ErrorResult_errorDetailsOrElse(m, r, onOk)

(***************************************************************************)
(* ResultFactory: the exception-to-Result adapters (synchronous).          *)
(***************************************************************************)
\* try { return ResultFactory.ok(fn()); } catch (err) { return this.fromErrorObject(logProperties, err); }
ResultFactory_tryCatchDefault(m, logProperties, fn) ==
  LET o == WrapOk(CallThunk(m, "fn", fn))
  IN IF o.kind = "throw" THEN ResultFactory_fromErrorObject(o.m, logProperties, o.thrown) ELSE o

\* try { return ResultFactory.ok(fn()); } catch (err) { return errorResultFactory(err); }
ResultFactory_tryCatch(m, fn, errorResultFactory) ==
  Catch(WrapOk(CallThunk(m, "fn", fn)), errorResultFactory)

(***************************************************************************)
(* ResultFactory: the asynchronous adapters.  An async function runs in    *)
(* two parts: the call evaluates fn() inside the try block, and if fn      *)
(* returned a promise the function is suspended at the await until that    *)
(* promise settles; the resumption then wraps the value or runs the catch  *)
(* block.  An outcome of kind "throw" is the rejection of the promise the  *)
(* async function returned.                                                *)
(*   async thunks  () => Promise: resolve (with v), reject (with x),       *)
(*                 throw (x, before any promise is returned)               *)
(***************************************************************************)
\* fn(): the promise it returns (kind "promise"), or its synchronous exception
CallAsyncThunk(m, role, f) ==
  IF f.kind = "closure"
  THEN Called(IF f.fn.kind = "throw" THEN Throw(m, f.fn.x) ELSE Return(m, "promise", UndefinedValue),
              role, f.fn, f.args, JsUndefined)
  ELSE Called(IF f.kind = "throw" THEN Throw(m, f.x) ELSE Return(m, "promise", UndefinedValue),
              role, [kind |-> f.kind, x |-> f.x], UndefinedValue, JsUndefined)

\* await p: the value p resolved with, or its rejection thrown at the await; the promise
\* of an async function called with args resolves with args (async a => a)
Await(m, f) ==
  IF f.kind = "closure"
  THEN IF f.fn.kind = "resolve" \/ (f.fn.kind = "rejectOdd" /\ f.args = 0)
       THEN Return(m, "value", f.args) ELSE Throw(m, f.fn.x)
  ELSE IF f.kind = "resolve" THEN Return(m, "value", f.v) ELSE Throw(m, f.x)

\* the rest of tryCatchDefaultAsync once fn() has thrown or its promise has settled (outcome o)
ResultFactory_tryCatchDefaultAsync_resume(o, logProperties) ==
  LET w == WrapOk(o)
  IN IF w.kind = "throw" THEN ResultFactory_fromErrorObject(w.m, logProperties, w.thrown) ELSE w

\* the rest of tryCatchAsync once fn() has thrown or its promise has settled (outcome o)
ResultFactory_tryCatchAsync_resume(o, errorResultFactory) ==
  Catch(WrapOk(o), errorResultFactory)

(***************************************************************************)
(* ResultFactory: the function wrappers.  wrapDefault, wrapDefaultAsync,   *)
(* wrap and wrapAsync return a function object (a closure over their      *)
(* arguments); wrapped / wrappedAsync is the call of that function.        *)
(***************************************************************************)
WrappedFunction(kind, logProperties, fn, errorResultFactory) ==
  [kind |-> kind, logProperties |-> logProperties, fn |-> fn,
   errorResultFactory |-> errorResultFactory]

NoWrapper ==
  WrappedFunction("none", Options(FALSE, <<>>, UNDEF, UNDEF, "undefined"),
                  Fn("none", JsUndefined), Fn("none", JsUndefined))

ResultFactory_wrapDefault(logProperties, fn) ==
  WrappedFunction("wrapDefault", logProperties, fn, Fn("none", JsUndefined))

ResultFactory_wrapDefaultAsync(logProperties, fn) ==
  WrappedFunction("wrapDefaultAsync", logProperties, fn, Fn("none", JsUndefined))

ResultFactory_wrap(fn, errorResultFactory) ==
  WrappedFunction("wrap", Options(FALSE, <<>>, UNDEF, UNDEF, "undefined"), fn, errorResultFactory)

ResultFactory_wrapAsync(fn, errorResultFactory) ==
  WrappedFunction("wrapAsync", Options(FALSE, <<>>, UNDEF, UNDEF, "undefined"), fn, errorResultFactory)

\* return ResultFactory.tryCatchDefault(logProperties, () => fn(...args))
ResultFactory_wrapDefault_wrapped(m, w, args) ==
  ResultFactory_tryCatchDefault(m, w.logProperties, Closure(w.fn, args))

\* wrapped calling fn with no arguments
ResultFactory_wrap_wrapped_NoArgs(m, w, args) ==
  ResultFactory_tryCatch(m, Closure(w.fn, UndefinedValue), w.errorResultFactory)

\* return ResultFactory.tryCatch(() => fn(...args), errorResultFactory)
ResultFactory_wrap_wrapped(m, w, args) ==
  ResultFactory_tryCatch(m, Closure(w.fn, args), w.errorResultFactory)

(***************************************************************************)
(* The inputs the model draws from.                                        *)
(***************************************************************************)
Values == 0..MaxVal

\* what a function handed to tryCatch* throws: also null and a circular object
ThunkThrown == Thrown \cup {JsNull, JsObject(TRUE, TRUE)}

Thunks == {[kind |-> "const", x |-> JsUndefined, v |-> v] : v \in Values}
          \cup {[kind |-> "throw", x |-> x, v |-> UndefinedValue] : x \in ThunkThrown}

\* the third is a DefaultErrorResultFactoryOptions, which is also a StandardLogPropertiesCore
OptionsSet ==
  { Options(FALSE, <<>>, UNDEF, UNDEF, "undefined"),
    Options(TRUE, <<"Domain", "op">>, "err-1", "corr-1", "undefined"),
    Options(TRUE, <<"Domain", "op">>, UNDEF, "corr-1", "false") }

\* the custom tag tables a developer may write: some of three keys, one of them the key
\* of a standard tag, each with one of three values, two of them standard tag values
CustomKeys == {"ApiError", "MyCustomError", "OtherCustomError"}

CustomValues == {"ApiError", "UserError", "MyCustomError"}

CustomTables == UNION {[K -> CustomValues] : K \in SUBSET CustomKeys}

\* the values handed to the isInstance guards
Unknowns ==
  { Unknown("undefined", <<>>, UNDEF), Unknown("null", <<>>, UNDEF),
    Unknown("number", <<"Number", "Object">>, UNDEF),
    Unknown("string", <<"String", "Object">>, UNDEF),
    Unknown("function", <<"Function", "Object">>, UNDEF),
    Unknown("object", <<"Object">>, UNDEF),
    Unknown("object", <<"Error", "Object">>, UNDEF) }
  \cup {InstanceOfClass(cls) : cls \in DetailsClasses}
  \cup {InstanceOfSubclass(cls) : cls \in DetailsClasses}
  \cup {PlainObjectLike(cls) : cls \in DetailsClasses}

\* the draws of Math.random() in one createErrorInstanceId call, as indices 0..35
Draws == { <<0, 0, 0, 0, 0, 0, 0, 0>>, <<0, 25, 26, 35, 9, 10, 1, 34>> }

AsyncThunks == {[kind |-> "resolve", x |-> JsUndefined, v |-> v] : v \in Values}
               \cup {[kind |-> k, x |-> x, v |-> UndefinedValue] : k \in {"reject", "throw"}, x \in Thrown}

OptionsSetDefault == Options(FALSE, <<>>, UNDEF, UNDEF, "undefined")

\* the functions handed to wrapDefault / wrap, and to their async forms
Functions == {Fn("echo", JsUndefined)} \cup Throwers

\* rejectOdd: async a => { if (a !== 0) throw x; return a; }
AsyncFunctions ==
  {Fn("resolve", JsUndefined)} \cup {Fn(k, x) : k \in {"reject", "throw", "rejectOdd"}, x \in Thrown}

Messages ==
  {JsString("boom"), JsUndefined, JsError("Error", "boom", "none"), JsError("Error", "boom", "bigint")}

ErrorCodes == {"TE"}

OptionalParams == {<<>>, <<"p1">>}

Responses == {ApiResponse("Not Found", "no such item", "inst-1", "traceId"),
              ApiResponse(UNDEF, "no such item", UNDEF, UNDEF),
              ApiResponse(UNDEF, UNDEF, UNDEF, UNDEF)}

(***************************************************************************)
(* The state machine.  A run creates one Result with a ResultFactory       *)
(* function and then calls operations in a chain, each on the Result the   *)
(* previous one returned, until an exception reaches the caller, a fold    *)
(* returns a plain value, or MaxSteps operations were called.              *)
(*   cur    the Result the next operation is called on (0: none)           *)
(*   last   the last call: its name, receiver, the machine state before    *)
(*          it, and how it ended                                           *)
(*   chain  history of the current map / andThen chain: the first Failure  *)
(*          it yielded (0: none yet), the number of callback invocations   *)
(*          made when it was yielded, the map / andThen calls made since   *)
(*          last.arg is the plain argument of the call (a default value),  *)
(*          last.input the arguments of a ResultFactory creation helper    *)
(*   pending  the async calls suspended at their await                     *)
(***************************************************************************)
ChainOps == {"mapNoCatch", "mapCatchDefault", "mapCatch",
             "andThenNoCatch", "andThenCatchDefault", "andThenCatch"}

EmptyMachine == [results |-> <<>>, details |-> <<>>, log |-> <<>>, calls |-> <<>>]

NoChain == [failure |-> 0, calls |-> 0, later |-> 0]

\* the arguments of a creation helper: options, errorCode, message, optionalParams, response
Input(options, errorCode, message, optionalParams, response) ==
  [options |-> options, errorCode |-> errorCode, message |-> message,
   optionalParams |-> optionalParams, response |-> response]

NoInput == Input(OptionsSetDefault, UNDEF, JsUndefined, <<>>, NoResponse)

\* probe: the last call of a function that takes and returns plain values and touches no
\* Result: its name, its arguments and what it returned
NoProbe == [fn |-> "none", args |-> <<>>, ret |-> <<>>]

Init ==
  /\ results = <<>>
  /\ details = <<>>
  /\ log = <<>>
  /\ calls = <<>>
  /\ cur = 0
  /\ steps = 0
  /\ last = [op |-> "init", recv |-> 0, arg |-> UndefinedValue, input |-> NoInput,
             pre |-> EmptyMachine, kind |-> "value",
             ret |-> UndefinedValue, snd |-> NoDetails, thrown |-> JsUndefined]
  /\ chain = NoChain
  /\ pending = <<>>
  /\ wrapper = NoWrapper
  /\ probe = NoProbe

\* the call op, made on cur (0 for a ResultFactory function) in machine state pre
\* with the plain argument arg (input: the arguments of a creation helper), ended with
\* outcome o
Returned(op, o, pre, arg, input) ==
  /\ results' = o.m.results
  /\ details' = o.m.details
  /\ log' = o.m.log
  /\ calls' = o.m.calls
  /\ last' = [op |-> op, recv |-> cur, arg |-> arg, input |-> input, pre |-> pre,
              kind |-> o.kind, ret |-> o.ret,
              snd |-> o.snd, thrown |-> o.thrown]

DoneFull(op, o, pre, arg, input) ==
  /\ Returned(op, o, pre, arg, input)
  /\ UNCHANGED <<wrapper, probe>>
  /\ cur' = IF o.kind = "result" THEN o.ret ELSE 0
  /\ steps' = IF cur = 0 THEN steps ELSE steps + 1
  /\ chain' = IF op \in ChainOps /\ chain.failure # 0
              THEN [chain EXCEPT !.later = @ + 1]
              ELSE IF o.kind = "result" /\ o.m.results[o.ret].isError
              THEN [failure |-> o.ret, calls |-> Len(o.m.calls), later |-> 0]
              ELSE NoChain

DoneWith(op, o, pre, arg) == DoneFull(op, o, pre, arg, NoInput)

DoneSince(op, o, pre) == DoneWith(op, o, pre, UndefinedValue)

DoneInput(op, o, input) == DoneFull(op, o, Machine, UndefinedValue, input) /\ UNCHANGED pending

Done(op, o) == DoneSince(op, o, Machine) /\ UNCHANGED pending

DoneArg(op, o, arg) == DoneWith(op, o, Machine, arg) /\ UNCHANGED pending

\* a call of the wrapper function returned: the caller keeps the wrapper and calls no
\* operation on what it returned
WrappedDone(op, o, pre, arg) ==
  /\ Returned(op, o, pre, arg, NoInput)
  /\ UNCHANGED <<cur, steps, chain, wrapper, probe>>

\* the async call op (of fn, or of the wrapper with the argument arg) evaluated fn() with
\* outcome o and is suspended at its await
SuspendedWith(op, o, fn, logProperties, errorResultFactory, arg) ==
  /\ results' = o.m.results
  /\ details' = o.m.details
  /\ log' = o.m.log
  /\ calls' = o.m.calls
  /\ last' = [op |-> "await", recv |-> 0, arg |-> arg, input |-> NoInput,
              pre |-> Machine, kind |-> "promise",
              ret |-> UndefinedValue, snd |-> NoDetails, thrown |-> JsUndefined]
  /\ pending' = Append(pending, [op |-> op, fn |-> fn, logProperties |-> logProperties,
                                  errorResultFactory |-> errorResultFactory, pre |-> Machine,
                                  arg |-> arg])
  /\ UNCHANGED <<cur, steps, chain, wrapper, probe>>

Suspended(op, o, fn, logProperties, errorResultFactory) ==
  SuspendedWith(op, o, fn, logProperties, errorResultFactory, UndefinedValue)

CanCreate == last.op = "init"

CanCall == cur # 0 /\ steps < MaxSteps

Ok == CanCreate /\ \E v \in Values : Done("ok", ResultFactory_ok(Machine, v))

ApiErrorNoLog ==
  CanCreate /\ \E o \in OptionsSet, c \in ErrorCodes, resp \in Responses :
    DoneInput("apiErrorNoLog", ResultFactory_apiErrorNoLog(Machine, o, c, resp),
              Input(o, c, JsUndefined, <<>>, resp))

ApiError ==
  CanCreate /\ \E o \in OptionsSet, c \in ErrorCodes, resp \in Responses :
    DoneInput("apiError", ResultFactory_apiError(Machine, o, c, resp),
              Input(o, c, JsUndefined, <<>>, resp))

AssertionFailedError ==
  CanCreate /\ \E o \in OptionsSet, c \in ErrorCodes, msg \in Messages, ps \in OptionalParams :
    DoneInput("assertionFailedError", ResultFactory_assertionFailedError(Machine, o, c, msg, ps),
              Input(o, c, msg, ps, NoResponse))

TechnicalError ==
  CanCreate /\ \E o \in OptionsSet, c \in ErrorCodes, msg \in Messages, ps \in OptionalParams :
    DoneInput("technicalError", ResultFactory_technicalError(Machine, o, c, msg, ps),
              Input(o, c, msg, ps, NoResponse))

UserError ==
  CanCreate /\ \E o \in OptionsSet, c \in ErrorCodes :
    DoneInput("userError", ResultFactory_userError(Machine, o, c, JsString("nope")),
              Input(o, c, JsString("nope"), <<>>, NoResponse))

ShortCircuitedError ==
  CanCreate /\ \E o \in OptionsSet, c \in ErrorCodes :
    DoneInput("shortCircuitedError", ResultFactory_shortCircuitedError(Machine, o, c, JsString("skip")),
              Input(o, c, JsString("skip"), <<>>, NoResponse))

FromErrorObject ==
  CanCreate /\ \E lp \in OptionsSet, x \in Thrown :
    Done("fromErrorObject", ResultFactory_fromErrorObject(Machine, lp, x))

TryCatchDefault ==
  CanCreate /\ \E lp \in OptionsSet, fn \in Thunks :
    DoneInput("tryCatchDefault", ResultFactory_tryCatchDefault(Machine, lp, fn),
              Input(lp, UNDEF, JsUndefined, <<>>, NoResponse))

TryCatch ==
  CanCreate /\ \E fn \in Thunks, ef \in Factories :
    Done("tryCatch", ResultFactory_tryCatch(Machine, fn, ef))

TryCatchDefaultAsync ==
  CanCreate /\ \E lp \in OptionsSet, fn \in AsyncThunks :
    LET o == CallAsyncThunk(Machine, "fn", fn)
    IN IF o.kind = "throw"
       THEN Done("tryCatchDefaultAsync", ResultFactory_tryCatchDefaultAsync_resume(o, lp))
       ELSE Suspended("tryCatchDefaultAsync", o, fn, lp, Fn("make", JsUndefined))

TryCatchAsync ==
  CanCreate /\ \E fn \in AsyncThunks, ef \in Factories :
    LET o == CallAsyncThunk(Machine, "fn", fn)
    IN IF o.kind = "throw"
       THEN Done("tryCatchAsync", ResultFactory_tryCatchAsync_resume(o, ef))
       ELSE Suspended("tryCatchAsync", o, fn, OptionsSetDefault, ef)

\* the promise an async call awaits settles, and the call resumes
Settle ==
  \E i \in DOMAIN pending :
    LET p == pending[i]
        o == Await(Machine, p.fn)
    IN /\ pending' = SubSeq(pending, 1, i - 1) \o SubSeq(pending, i + 1, Len(pending))
       /\ CASE p.op = "tryCatchDefaultAsync" ->
                 DoneSince(p.op, ResultFactory_tryCatchDefaultAsync_resume(o, p.logProperties), p.pre)
            [] p.op = "tryCatchAsync" ->
                 DoneSince(p.op, ResultFactory_tryCatchAsync_resume(o, p.errorResultFactory), p.pre)
            [] p.op = "wrapDefaultAsync" ->
                 WrappedDone(p.op, ResultFactory_tryCatchDefaultAsync_resume(o, p.logProperties),
                             Machine, p.arg)
            [] p.op = "wrapAsync" ->
                 WrappedDone(p.op, ResultFactory_tryCatchAsync_resume(o, p.errorResultFactory),
                             Machine, p.arg)

\* creating a wrapper: the function object is all that is made
Wrapping(op, w) ==
  /\ CanCreate
  /\ wrapper' = w
  /\ last' = [last EXCEPT !.op = op, !.kind = "function"]
  /\ UNCHANGED <<results, details, log, calls, cur, steps, chain, pending, probe>>

WrapDefault ==
  \E lp \in OptionsSet, fn \in Functions : Wrapping("wrapDefault:create", ResultFactory_wrapDefault(lp, fn))

WrapDefaultAsync ==
  \E lp \in OptionsSet, fn \in AsyncFunctions :
    Wrapping("wrapDefaultAsync:create", ResultFactory_wrapDefaultAsync(lp, fn))

Wrap ==
  \E fn \in Functions, ef \in Factories : Wrapping("wrap:create", ResultFactory_wrap(fn, ef))

WrapAsync ==
  \E fn \in AsyncFunctions, ef \in Factories :
    Wrapping("wrapAsync:create", ResultFactory_wrapAsync(fn, ef))

\* the calls of fn made so far: one per call of the wrapper
IsFnCall(c) == c.role = "fn"

CanCallWrapped(kind) ==
  wrapper.kind = kind /\ Len(SelectSeq(calls, IsFnCall)) < MaxCalls

WrappedDefault ==
  CanCallWrapped("wrapDefault") /\ \E a \in Values :
    WrappedDone("wrapDefault", ResultFactory_wrapDefault_wrapped(Machine, wrapper, a), Machine, a)
    /\ UNCHANGED pending

Wrapped ==
  CanCallWrapped("wrap") /\ \E a \in Values :
    WrappedDone("wrap", ResultFactory_wrap_wrapped(Machine, wrapper, a), Machine, a)
    /\ UNCHANGED pending

\* return ResultFactory.tryCatchDefaultAsync(logProperties, () => fn(...args)), up to the await
WrappedDefaultAsync ==
  CanCallWrapped("wrapDefaultAsync") /\ \E a \in Values :
    LET o == CallAsyncThunk(Machine, "fn", Closure(wrapper.fn, a))
    IN IF o.kind = "throw"
       THEN WrappedDone("wrapDefaultAsync",
                        ResultFactory_tryCatchDefaultAsync_resume(o, wrapper.logProperties), Machine, a)
            /\ UNCHANGED pending
       ELSE SuspendedWith("wrapDefaultAsync", o, Closure(wrapper.fn, a), wrapper.logProperties,
                          wrapper.errorResultFactory, a)

\* return ResultFactory.tryCatchAsync(() => fn(...args), errorResultFactory), up to the await
WrappedAsync ==
  CanCallWrapped("wrapAsync") /\ \E a \in Values :
    LET o == CallAsyncThunk(Machine, "fn", Closure(wrapper.fn, a))
    IN IF o.kind = "throw"
       THEN WrappedDone("wrapAsync",
                        ResultFactory_tryCatchAsync_resume(o, wrapper.errorResultFactory), Machine, a)
            /\ UNCHANGED pending
       ELSE SuspendedWith("wrapAsync", o, Closure(wrapper.fn, a), wrapper.logProperties,
                          wrapper.errorResultFactory, a)

ToVoidResult ==
  CanCall /\ IsOkResult(Machine, cur) /\ Done("toVoidResult", OkResult_toVoidResult(Machine, cur))

FoldNoCatch ==
  CanCall /\ \E onOk \in ValueMappers, onError \in Folders :
    Done("foldNoCatch", foldNoCatch(Machine, cur, onOk, onError))

FoldCatchDefault ==
  CanCall /\ \E lp \in OptionsSet, onOk \in ValueMappers, onError \in Folders :
    Done("foldCatchDefault", foldCatchDefault(Machine, cur, lp, onOk, onError))

FoldCatch ==
  CanCall /\ \E onOk \in ValueMappers, ef \in Factories, onError \in Folders :
    Done("foldCatch", foldCatch(Machine, cur, onOk, ef, onError))

MapNoCatch ==
  CanCall /\ \E onOk \in ValueMappers : Done("mapNoCatch", mapNoCatch(Machine, cur, onOk))

MapCatchDefault ==
  CanCall /\ \E lp \in OptionsSet, onOk \in ValueMappers :
    Done("mapCatchDefault", mapCatchDefault(Machine, cur, lp, onOk))

MapCatch ==
  CanCall /\ \E onOk \in ValueMappers, ef \in Factories :
    Done("mapCatch", mapCatch(Machine, cur, onOk, ef))

MapError ==
  CanCall /\ \E onError \in DetailsMappers : Done("mapError", mapError(Machine, cur, onError))

AndThenNoCatch ==
  CanCall /\ \E onOk \in Binders : Done("andThenNoCatch", andThenNoCatch(Machine, cur, onOk))

AndThenCatchDefault ==
  CanCall /\ \E lp \in OptionsSet, onOk \in Binders :
    Done("andThenCatchDefault", andThenCatchDefault(Machine, cur, lp, onOk))

AndThenCatch ==
  CanCall /\ \E onOk \in Binders, ef \in Factories :
    Done("andThenCatch", andThenCatch(Machine, cur, onOk, ef))

OrElseNoCatch ==
  CanCall /\ \E onError \in Binders : Done("orElseNoCatch", orElseNoCatch(Machine, cur, onError))

OrElseCatchDefault ==
  CanCall /\ \E lp \in OptionsSet, onError \in Binders :
    Done("orElseCatchDefault", orElseCatchDefault(Machine, cur, lp, onError))

OrElseCatch ==
  CanCall /\ \E onError \in Binders, ef \in Factories :
    Done("orElseCatch", orElseCatch(Machine, cur, onError, ef))

ToTuple == CanCall /\ Done("toTuple", toTuple(Machine, cur))

ValueOrNull == CanCall /\ Done("valueOrNull", valueOrNull(Machine, cur))

ValueOrUndefined == CanCall /\ Done("valueOrUndefined", valueOrUndefined(Machine, cur))

ValueOrDefault ==
  CanCall /\ \E d \in Values : DoneArg("valueOrDefault", valueOrDefault(Machine, cur, d), d)

ValueOrThrow ==
  CanCall /\ \E ef \in ErrorFactories : Done("valueOrThrow", valueOrThrow(Machine, cur, ef))

ValueOrElse ==
  CanCall /\ \E onError \in Folders : Done("valueOrElse", valueOrElse(Machine, cur, onError))

ErrorDetailsOrNull == CanCall /\ Done("errorDetailsOrNull", errorDetailsOrNull(Machine, cur))

ErrorDetailsOrUndefined ==
  CanCall /\ Done("errorDetailsOrUndefined", errorDetailsOrUndefined(Machine, cur))

ErrorDetailsOrDefault ==
  CanCall /\ \E d \in Values :
    DoneArg("errorDetailsOrDefault", errorDetailsOrDefault(Machine, cur, d), d)

ErrorDetailsOrThrow ==
  CanCall /\ \E ef \in ErrorFactories :
    Done("errorDetailsOrThrow", errorDetailsOrThrow(Machine, cur, ef))

ErrorDetailsOrElse ==
  CanCall /\ \E onOk \in Thunks : Done("errorDetailsOrElse", errorDetailsOrElse(Machine, cur, onOk))

IsApiError == CanCall /\ Done("isApiError", ReturnBoolean(Machine, AbstractResult_isApiError(Machine, cur)))

IsAssertionFailedError ==
  CanCall /\ Done("isAssertionFailedError",
                  ReturnBoolean(Machine, AbstractResult_isAssertionFailedError(Machine, cur)))

IsTechnicalError ==
  CanCall /\ Done("isTechnicalError", ReturnBoolean(Machine, AbstractResult_isTechnicalError(Machine, cur)))

IsUserError == CanCall /\ Done("isUserError", ReturnBoolean(Machine, AbstractResult_isUserError(Machine, cur)))

IsShortCircuitedError ==
  CanCall /\ Done("isShortCircuitedError",
                  ReturnBoolean(Machine, AbstractResult_isShortCircuitedError(Machine, cur)))

\* a call of a function on plain values: nothing but the probe records it
Probed(fn, args, ret) ==
  /\ CanCreate
  /\ probe' = [fn |-> fn, args |-> args, ret |-> ret]
  /\ last' = [last EXCEPT !.op = fn, !.kind = "plain"]
  /\ UNCHANGED <<results, details, log, calls, cur, steps, chain, pending, wrapper>>

\* the project is compiled with the custom tag table custom
Build ==
  \E custom \in CustomTables :
    Probed("build", <<custom>>,
           [accepted |-> NoDuplicateTagsAllowed(custom),
            tags |-> MergedErrorResultDetailsDiscriminantTags(custom)])

ToErrorString ==
  \E error \in JsValues : Probed("toErrorString", <<error>>, ErrorUtils_toErrorString(error))

IsInstance ==
  \E ctor \in DetailsClasses, object \in Unknowns :
    Probed("isInstance", <<ctor, object>>, ErrorResultDetails_isInstance(ctor, object))

\* the caller reads a member of the details of the Failure it holds, and keeps the Failure
Read(op, o, d) ==
  /\ Returned(op, o, Machine, d, NoInput)
  /\ cur' = cur
  /\ steps' = steps + 1
  /\ UNCHANGED <<chain, wrapper, pending, probe>>

CanRead == CanCall /\ results[cur].isError

ErrorInstanceId ==
  CanRead /\ \E r \in Draws :
    Read("errorInstanceId",
         AbstractErrorResultDetails_errorInstanceId(Machine, results[cur].errorDetails, r),
         results[cur].errorDetails)

FormatErrorResult ==
  CanRead /\
    Read("formatErrorResult",
         ReturnString(Machine,
                      AbstractErrorResultDetails_formatErrorResult(details[results[cur].errorDetails])),
         results[cur].errorDetails)

Next ==
  \/ ErrorInstanceId \/ FormatErrorResult
  \/ IsInstance \/ Build \/ ToErrorString
  \/ Ok \/ ApiErrorNoLog \/ ApiError \/ AssertionFailedError \/ TechnicalError
  \/ UserError \/ ShortCircuitedError \/ FromErrorObject \/ TryCatchDefault \/ TryCatch
  \/ TryCatchDefaultAsync \/ TryCatchAsync \/ Settle
  \/ WrapDefault \/ WrapDefaultAsync \/ Wrap \/ WrapAsync
  \/ WrappedDefault \/ WrappedDefaultAsync \/ Wrapped \/ WrappedAsync
  \/ ToVoidResult
  \/ FoldNoCatch \/ FoldCatchDefault \/ FoldCatch
  \/ MapNoCatch \/ MapCatchDefault \/ MapCatch \/ MapError
  \/ AndThenNoCatch \/ AndThenCatchDefault \/ AndThenCatch
  \/ OrElseNoCatch \/ OrElseCatchDefault \/ OrElseCatch
  \/ ToTuple \/ ValueOrNull \/ ValueOrUndefined \/ ValueOrDefault \/ ValueOrThrow \/ ValueOrElse
  \/ ErrorDetailsOrNull \/ ErrorDetailsOrUndefined \/ ErrorDetailsOrDefault
  \/ ErrorDetailsOrThrow \/ ErrorDetailsOrElse
  \/ IsApiError \/ IsAssertionFailedError \/ IsTechnicalError \/ IsUserError \/ IsShortCircuitedError

Spec == Init /\ [][Next]_vars

(***************************************************************************)
(* What the last call did, read from the state before and after it.        *)
(***************************************************************************)
Acted == last.op # "init"

OnResult == Acted /\ last.recv # 0

RecvWasOk == OnResult /\ last.pre.results[last.recv].isOk

RecvWasError == OnResult /\ last.pre.results[last.recv].isError

\* the callback invocations and the log calls the last call made
NewCalls == SubSeq(calls, Len(last.pre.calls) + 1, Len(calls))

NewLogs == SubSeq(log, Len(last.pre.log) + 1, Len(log))

IsFactoryCall(c) == c.role = "errorResultFactory"

FactoryCalls == SelectSeq(NewCalls, IsFactoryCall)

IsCallbackCall(c) == c.role # "errorResultFactory"

CallbackCalls == SelectSeq(NewCalls, IsCallbackCall)

IsCoreLog(e) == e.origin = "core"

CoreLogs == SelectSeq(NewLogs, IsCoreLog)

IsErrorLevel(e) == e.level = "error"

PassOnFailure == ChainOps

PassOnSuccess == {"mapError", "orElseNoCatch", "orElseCatchDefault", "orElseCatch"}

(***************************************************************************)
(* C1: every Result is exactly one of isOk / isError, its discriminantTag  *)
(* says which, a Success has no error details and a Failure holds one      *)
(* details instance and no value; whatever a call returns as a Result is   *)
(* such a Result.                                                          *)
(***************************************************************************)
WellFormedResult(r) ==
  /\ r.isOk # r.isError
  /\ (r.discriminantTag = "OkResult") <=> r.isOk
  /\ (r.discriminantTag = "ErrorResult") <=> r.isError
  /\ r.isOk => r.errorDetails = NoDetails
  /\ r.isError => r.errorDetails \in DOMAIN details /\ r.value = UndefinedValue

C1_Exhaustive ==
  /\ \A i \in DOMAIN results : WellFormedResult(results[i])
  /\ (Acted /\ last.kind = "result") => last.ret \in DOMAIN results

C1_Witness ==
  /\ OnResult /\ last.kind = "result"
  /\ \E i, j \in DOMAIN results : results[i].isOk /\ results[j].isError

(***************************************************************************)
(* C2: map* / andThen* on a Failure and mapError / orElse* on a Success    *)
(* return the receiver itself, invoke no callback and no failure factory,  *)
(* make no log call and leave every object as it was.                      *)
(***************************************************************************)
PassedThrough ==
  \/ RecvWasError /\ last.op \in PassOnFailure
  \/ RecvWasOk /\ last.op \in PassOnSuccess

C2_PassThrough ==
  PassedThrough =>
    /\ last.kind = "result"
    /\ last.ret = last.recv
    /\ calls = last.pre.calls
    /\ log = last.pre.log
    /\ results = last.pre.results
    /\ details = last.pre.details

C2_Witness == RecvWasError /\ last.op = "andThenCatch" /\ last.kind = "result"

(***************************************************************************)
(* C3: once a chain of map* / andThen* calls has yielded a Failure, every  *)
(* later call of the chain returns that same Failure instance and invokes  *)
(* no callback.                                                            *)
(***************************************************************************)
C3_ShortCircuit ==
  chain.failure # 0 =>
    /\ cur = chain.failure
    /\ results[cur].isError
    /\ Len(calls) = chain.calls

C3_Witness ==
  /\ chain.failure # 0 /\ chain.later >= 1
  /\ results[1].isOk
  /\ last.op \in {"mapNoCatch", "mapCatchDefault", "mapCatch"}

(***************************************************************************)
(* C4: when the callback of mapNoCatch, andThenNoCatch or foldNoCatch on a *)
(* Success, or of orElseNoCatch on a Failure, throws X, the call throws    *)
(* exactly X, makes no log call and creates no Result.                     *)
(***************************************************************************)
NoCatchCall ==
  \/ RecvWasOk /\ last.op \in {"mapNoCatch", "andThenNoCatch", "foldNoCatch"}
  \/ RecvWasError /\ last.op = "orElseNoCatch"

CatchDefaultCall ==
  \/ RecvWasOk /\ last.op \in {"mapCatchDefault", "andThenCatchDefault", "foldCatchDefault"}
  \/ RecvWasError /\ last.op = "orElseCatchDefault"

IsUnexpectedTechnicalFailure(r, x) ==
  /\ r \in DOMAIN results
  /\ results[r].isError
  /\ LET d == details[results[r].errorDetails]
     IN /\ d.cls = "TechnicalErrorResultDetails"
        /\ d.errorCode = "UNEXPECTED"
        /\ x.ty = "string" => d.errorMessage = x.text

C5_CatchDefaultConverts ==
  (CatchDefaultCall /\ Len(NewCalls) > 0) =>
    IF NewCalls[1].kind = "throw"
    THEN /\ last.kind = "result"
         /\ IsUnexpectedTechnicalFailure(last.ret, NewCalls[1].thrown)
         /\ Len(NewLogs) = 1
         /\ IsErrorLevel(NewLogs[1])
    ELSE log = last.pre.log

\* the callback threw an Error whose cause JSON.stringify rejects: the TypeError of
\* toErrorString leaves the call, no Failure is created and nothing is logged
C5_Diverges ==
  /\ CatchDefaultCall /\ Len(NewCalls) = 1
  /\ NewCalls[1].kind = "throw" /\ NewCalls[1].thrown = JsError("Error", "boom", "bigint")
  /\ last.kind = "throw" /\ last.thrown = SerializeTypeError
  /\ log = last.pre.log /\ results = last.pre.results

(***************************************************************************)
(* C6: in mapCatch, andThenCatch, foldCatch on a Success, orElseCatch on a *)
(* Failure, tryCatch and tryCatchAsync the failure factory is invoked      *)
(* exactly once, with the thrown or rejected value, if and only if the     *)
(* callback throws or rejects; what the factory returns is what the call   *)
(* returns, and the library itself makes no log call.                      *)
(***************************************************************************)
CatchCall ==
  \/ RecvWasOk /\ last.op \in {"mapCatch", "andThenCatch", "foldCatch"}
  \/ RecvWasError /\ last.op = "orElseCatch"
  \/ Acted /\ last.op \in {"tryCatch", "tryCatchAsync"}

\* the callback invocation c ended with an exception or a rejected promise
Failed(c) == c.kind = "throw" \/ (c.kind = "promise" /\ c.fn.kind = "reject")

FailedWith(c) == IF c.kind = "throw" THEN c.thrown ELSE c.fn.x

C6_CatchCallsFactory ==
  CatchCall =>
    /\ Len(CallbackCalls) = 1
    /\ IsCallbackCall(NewCalls[1])
    /\ CoreLogs = <<>>
    /\ IF Failed(NewCalls[1])
       THEN /\ Len(FactoryCalls) = 1
            /\ FactoryCalls[1].x = FailedWith(NewCalls[1])
            /\ FactoryCalls[1].kind = "result" =>
                 /\ last.kind = "result"
                 /\ last.ret = FactoryCalls[1].ret
                 /\ last.ret = Len(results)
                 /\ results[last.ret].isError
       ELSE FactoryCalls = <<>>

C6_Witness ==
  /\ last.op = "tryCatchAsync" /\ Len(NewCalls) = 2
  /\ NewCalls[1].fn.kind = "reject"
  /\ last.kind = "result" /\ results[last.ret].isError

(***************************************************************************)
(* C7 (as claimed): no call of a CatchDefault or Catch operation or        *)
(* adapter ends with an exception reaching the caller (for the async       *)
(* adapters: with a rejected promise).                                     *)
(***************************************************************************)
ContainingOps ==
  {"mapCatchDefault", "mapCatch", "andThenCatchDefault", "andThenCatch",
   "orElseCatchDefault", "orElseCatch", "foldCatchDefault", "foldCatch",
   "tryCatchDefault", "tryCatch", "tryCatchDefaultAsync", "tryCatchAsync"}

C7_NeverThrows == (Acted /\ last.op \in ContainingOps) => last.kind # "throw"

\* tryCatchDefault ends with the TypeError of toErrorString
C7_Diverges ==
  /\ last.op = "tryCatchDefault" /\ Len(NewCalls) = 1
  /\ NewCalls[1].kind = "throw"
  /\ last.kind = "throw" /\ last.thrown = SerializeTypeError

(***************************************************************************)
(* C8: map* on Success(v) with a callback that does not throw invokes it   *)
(* once with v and returns a new Success holding what it returned (v       *)
(* itself for the identity); mapError on Failure(e) invokes its callback   *)
(* once with e and returns a new Failure holding what it returned; the     *)
(* receiver holds its v or e afterwards.                                   *)
(***************************************************************************)
MapCall == RecvWasOk /\ last.op \in {"mapNoCatch", "mapCatchDefault", "mapCatch"}

MapErrorCall == RecvWasError /\ last.op = "mapError"

C8_MapWraps ==
  /\ MapCall =>
       /\ Len(CallbackCalls) = 1
       /\ NewCalls[1].role = "onOk"
       /\ NewCalls[1].arg = last.pre.results[last.recv].value
       /\ NewCalls[1].kind # "throw" =>
            /\ Len(NewCalls) = 1
            /\ last.kind = "result"
            /\ last.ret # last.recv
            /\ results[last.ret].isOk
            /\ results[last.ret].value = NewCalls[1].ret
            /\ NewCalls[1].fn.kind = "id" => results[last.ret].value = results[last.recv].value
            /\ results[last.recv] = last.pre.results[last.recv]
  /\ MapErrorCall =>
       /\ Len(NewCalls) = 1
       /\ NewCalls[1].role = "onError"
       /\ NewCalls[1].arg = last.pre.results[last.recv].errorDetails
       /\ NewCalls[1].kind # "throw" =>
            /\ last.kind = "result"
            /\ last.ret # last.recv
            /\ results[last.ret].isError
            /\ results[last.ret].errorDetails = NewCalls[1].ret
            /\ results[last.recv] = last.pre.results[last.recv]
            /\ details[results[last.recv].errorDetails]
                 = last.pre.details[results[last.recv].errorDetails]

C8_Witness ==
  /\ MapCall /\ last.op = "mapCatchDefault" /\ last.kind = "result"
  /\ NewCalls[1].fn.kind = "succ"
  /\ results[last.ret].value # results[last.recv].value

(***************************************************************************)
(* C9: andThen* on Success(v) and orElse* on Failure(e) invoke the         *)
(* callback once, with v or e; when it returns a Result, the call returns  *)
(* that very Result, unmodified, and makes no log call.                    *)
(***************************************************************************)
AndThenCall == RecvWasOk /\ last.op \in {"andThenNoCatch", "andThenCatchDefault", "andThenCatch"}

OrElseCall == RecvWasError /\ last.op \in {"orElseNoCatch", "orElseCatchDefault", "orElseCatch"}

C9_BindReturnsCallbackResult ==
  (AndThenCall \/ OrElseCall) =>
    /\ Len(CallbackCalls) = 1
    /\ NewCalls[1].role = (IF AndThenCall THEN "onOk" ELSE "onError")
    /\ NewCalls[1].arg = (IF AndThenCall THEN last.pre.results[last.recv].value
                          ELSE last.pre.results[last.recv].errorDetails)
    /\ NewCalls[1].kind = "result" =>
         /\ Len(NewCalls) = 1
         /\ last.kind = "result"
         /\ last.ret = NewCalls[1].ret
         /\ Len(results) = Len(last.pre.results) + 1
         /\ log = last.pre.log

C9_Witness ==
  /\ OrElseCall /\ last.op = "orElseCatchDefault"
  /\ last.kind = "result" /\ results[last.ret].isOk

(***************************************************************************)
(* C10: fold* invokes exactly one branch callback, once: onOk(v) on a      *)
(* Success, onError(e) on a Failure; what it returns is returned as is.    *)
(* On a Failure an exception of onError reaches the caller unchanged, and  *)
(* the failure factory is never invoked.                                   *)
(***************************************************************************)
FoldCall == OnResult /\ last.op \in {"foldNoCatch", "foldCatchDefault", "foldCatch"}

C10_FoldRoutes ==
  FoldCall =>
    /\ Len(CallbackCalls) = 1
    /\ NewCalls[1].role = (IF RecvWasOk THEN "onOk" ELSE "onError")
    /\ NewCalls[1].arg = (IF RecvWasOk THEN last.pre.results[last.recv].value
                          ELSE last.pre.results[last.recv].errorDetails)
    /\ NewCalls[1].kind # "throw" =>
         /\ last.kind = "value"
         /\ last.ret = NewCalls[1].ret
         /\ results = last.pre.results
         /\ Len(NewCalls) = 1
    /\ RecvWasError =>
         /\ FactoryCalls = <<>>
         /\ log = last.pre.log
         /\ NewCalls[1].kind = "throw" =>
              /\ last.kind = "throw"
              /\ last.thrown = NewCalls[1].thrown

C10_Witness ==
  /\ FoldCall /\ RecvWasError /\ last.op = "foldCatch"
  /\ last.kind = "throw"

(***************************************************************************)
(* C11: on a Success the valueOr* operations return the held value and     *)
(* invoke nothing, errorDetailsOrNull / OrUndefined / OrDefault(d) /       *)
(* OrElse(g) return null / undefined / d / g() and errorDetailsOrThrow     *)
(* throws the Error its factory returned; on a Failure the errorDetailsOr* *)
(* operations return the held details and invoke nothing, valueOrNull /    *)
(* OrUndefined / OrDefault(d) / OrElse(f) return null / undefined / d /    *)
(* f(e) and valueOrThrow throws the Error factory(e) returned.             *)
(***************************************************************************)
ValueOrOps == {"valueOrNull", "valueOrUndefined", "valueOrDefault", "valueOrThrow", "valueOrElse"}

ErrorDetailsOrOps ==
  {"errorDetailsOrNull", "errorDetailsOrUndefined", "errorDetailsOrDefault",
   "errorDetailsOrThrow", "errorDetailsOrElse"}

\* the alternative of an unwrap operation: what it yields on the other variant, the
\* callback receiving arg (the details of a Failure, nothing on a Success)
Alternative(suffix, arg) ==
  CASE suffix = "Null" -> last.kind = "null" /\ NewCalls = <<>>
    [] suffix = "Undefined" -> last.kind = "value" /\ last.ret = UndefinedValue /\ NewCalls = <<>>
    [] suffix = "Default" -> last.kind = "value" /\ last.ret = last.arg /\ NewCalls = <<>>
    [] suffix = "Else" ->
         /\ Len(NewCalls) = 1
         /\ NewCalls[1].arg = arg
         /\ NewCalls[1].kind # "throw" => last.kind = "value" /\ last.ret = NewCalls[1].ret
    [] suffix = "Throw" ->
         /\ Len(NewCalls) = 1
         /\ NewCalls[1].role = "errorFactory"
         /\ NewCalls[1].arg = arg
         /\ last.kind = "throw"
         /\ last.thrown = NewCalls[1].thrown

Suffix(op) ==
  CASE op \in {"valueOrNull", "errorDetailsOrNull"} -> "Null"
    [] op \in {"valueOrUndefined", "errorDetailsOrUndefined"} -> "Undefined"
    [] op \in {"valueOrDefault", "errorDetailsOrDefault"} -> "Default"
    [] op \in {"valueOrElse", "errorDetailsOrElse"} -> "Else"
    [] OTHER -> "Throw"

C12_ToTuple ==
  (OnResult /\ last.op = "toTuple") =>
    /\ last.kind = "tuple"
    /\ NewCalls = <<>> /\ log = last.pre.log /\ results = last.pre.results
    /\ RecvWasOk => last.ret = results[last.recv].value /\ last.snd = NoDetails
    /\ RecvWasError => last.ret = UndefinedValue /\ last.snd = results[last.recv].errorDetails
    /\ (last.snd = NoDetails) <=> results[last.recv].isOk

C12_Witness ==
  /\ RecvWasError /\ last.op = "toTuple"
  /\ last.snd \in DOMAIN details /\ last.ret = UndefinedValue

(***************************************************************************)
(* C13: the five error-kind guards are all false on a Success; on a        *)
(* Failure each is true exactly when the held details are of its variant,  *)
(* so exactly one of the five is true; a guard call returns that answer    *)
(* and changes nothing.                                                    *)
(***************************************************************************)
GuardOps ==
  [ isApiError |-> "ApiError", isAssertionFailedError |-> "AssertionFailedError",
    isTechnicalError |-> "TechnicalError", isUserError |-> "UserError",
    isShortCircuitedError |-> "ShortCircuitedError" ]

\* the answers of the five guards on result r, keyed by the variant each is about
Guards(r) ==
  [ ApiError |-> AbstractResult_isApiError(Machine, r),
    AssertionFailedError |-> AbstractResult_isAssertionFailedError(Machine, r),
    TechnicalError |-> AbstractResult_isTechnicalError(Machine, r),
    UserError |-> AbstractResult_isUserError(Machine, r),
    ShortCircuitedError |-> AbstractResult_isShortCircuitedError(Machine, r) ]

C13_Guards ==
  /\ \A r \in DOMAIN results :
       LET g == Guards(r)
       IN /\ results[r].isOk => \A t \in DOMAIN g : ~g[t]
          /\ results[r].isError =>
               /\ \A t \in DOMAIN g : g[t] <=> details[results[r].errorDetails].discriminantTag = t
               /\ Cardinality({t \in DOMAIN g : g[t]}) = 1
  /\ (OnResult /\ last.op \in DOMAIN GuardOps) =>
       /\ last.kind = "boolean"
       /\ (last.ret = 1) <=> Guards(last.recv)[GuardOps[last.op]]
       /\ last.ret \in {0, 1}
       /\ Machine = last.pre

C13_Witness ==
  /\ RecvWasError /\ last.op = "isUserError" /\ last.ret = 1
  /\ details[results[last.recv].errorDetails].cls = "UserErrorResultDetails"

(***************************************************************************)
(* C14 (as claimed): unless options.log is false, assertionFailedError,    *)
(* technicalError and apiError make exactly one log call, at error level,  *)
(* userError and shortCircuitedError exactly one, at debug level; with     *)
(* options.log false none of the five makes a log call; ok and             *)
(* apiErrorNoLog never log; the outcome of a helper is the one the same    *)
(* call yields with logging suppressed.                                    *)
(***************************************************************************)
ErrorLevelHelpers == {"assertionFailedError", "technicalError", "apiError"}

DebugLevelHelpers == {"userError", "shortCircuitedError"}

SilentHelpers == {"ok", "apiErrorNoLog"}

\* the creation helper op applied to the arguments i in machine state m
CreationHelper(m, op, i) ==
  CASE op = "apiError" -> ResultFactory_apiError(m, i.options, i.errorCode, i.response)
    [] op = "assertionFailedError" ->
         ResultFactory_assertionFailedError(m, i.options, i.errorCode, i.message, i.optionalParams)
    [] op = "technicalError" ->
         ResultFactory_technicalError(m, i.options, i.errorCode, i.message, i.optionalParams)
    [] op = "userError" -> ResultFactory_userError(m, i.options, i.errorCode, i.message)
    [] op = "shortCircuitedError" ->
         ResultFactory_shortCircuitedError(m, i.options, i.errorCode, i.message)

LoggingHelperCall == Acted /\ last.op \in ErrorLevelHelpers \cup DebugLevelHelpers

C14_FactoryLogging ==
  /\ (Acted /\ last.op \in SilentHelpers) => NewLogs = <<>>
  /\ LoggingHelperCall =>
       /\ last.input.options.log = "false" => NewLogs = <<>>
       /\ last.input.options.log # "false" =>
            /\ Len(NewLogs) = 1
            /\ NewLogs[1].level = (IF last.op \in ErrorLevelHelpers THEN "error" ELSE "debug")
       /\ LET quiet == CreationHelper(last.pre, last.op, [last.input EXCEPT !.options.log = "false"])
          IN /\ quiet.kind = last.kind
             /\ quiet.ret = last.ret
             /\ quiet.m.results = results
             /\ quiet.m.details = details

\* technicalError given an Error whose cause JSON.stringify rejects: the log call
\* throws, nothing is logged and no Failure is returned
C14_Diverges ==
  /\ last.op = "technicalError" /\ last.input.options.log # "false"
  /\ last.input.message = JsError("Error", "boom", "bigint")
  /\ last.kind = "throw" /\ last.thrown = SerializeTypeError
  /\ NewLogs = <<>> /\ results = <<>>

(***************************************************************************)
(* C15: the Failure assertionFailedError, technicalError, userError or     *)
(* shortCircuitedError returns holds details of the matching variant with  *)
(* the error code passed and the correlationId, errorInstanceId and        *)
(* context of the options passed, the context without the prefix the log   *)
(* call carries.                                                           *)
(***************************************************************************)
HelperClass ==
  [ assertionFailedError |-> "AssertionFailedErrorResultDetails",
    technicalError |-> "TechnicalErrorResultDetails",
    userError |-> "UserErrorResultDetails",
    shortCircuitedError |-> "ShortCircuitedErrorResultDetails" ]

MessageHelperReturned == Acted /\ last.op \in DOMAIN HelperClass /\ last.kind = "result"

C15_FactoryFields ==
  MessageHelperReturned =>
    /\ results[last.ret].isError
    /\ LET d == details[results[last.ret].errorDetails]
       IN /\ d.cls = HelperClass[last.op]
          /\ d.discriminantTag = ErrorResultDetailsDiscriminantTags[HelperClass[last.op]]
          /\ d.errorCode = last.input.errorCode
          /\ d.correlationId = last.input.options.correlationId
          /\ d.errorInstanceId = last.input.options.errorInstanceId
          /\ d.hasContext = last.input.options.hasContext
          /\ d.context = last.input.options.context

C15_Witness ==
  /\ MessageHelperReturned /\ last.op = "userError"
  /\ last.input.options.hasContext /\ last.input.options.errorInstanceId = "err-1"
  /\ Len(NewLogs) = 1 /\ NewLogs[1].ctx.context # last.input.options.context

(***************************************************************************)
(* C16 (as claimed): tryCatchDefault invokes fn once; when fn returns v it *)
(* returns Success(v) and makes no log call; when fn throws X it returns   *)
(* an AssertionFailed Failure if X is an AssertionFailedError and a        *)
(* Technical Failure for every other X, with exactly one log call, at      *)
(* error level.                                                            *)
(***************************************************************************)
TryCatchDefaultCall == Acted /\ last.op = "tryCatchDefault"

\* the details class fromErrorObject is said to choose for the caught value x
ClassifiedAs(x) ==
  IF x.ty = "object" /\ x.cls = "AssertionFailedError" THEN "AssertionFailedErrorResultDetails"
  ELSE "TechnicalErrorResultDetails"

C16_TryCatchDefault ==
  TryCatchDefaultCall =>
    /\ Len(NewCalls) = 1
    /\ NewCalls[1].role = "fn"
    /\ IF NewCalls[1].kind # "throw"
       THEN /\ last.kind = "result"
            /\ results[last.ret].isOk
            /\ results[last.ret].value = NewCalls[1].ret
            /\ NewLogs = <<>>
       ELSE /\ last.kind = "result"
            /\ results[last.ret].isError
            /\ details[results[last.ret].errorDetails].cls = ClassifiedAs(NewCalls[1].thrown)
            /\ Len(NewLogs) = 1
            /\ IsErrorLevel(NewLogs[1])

\* fn threw an Error whose cause JSON.stringify rejects: fromErrorObject throws
C16_Diverges ==
  /\ TryCatchDefaultCall /\ last.input.options.log # "false"
  /\ NewCalls[1].thrown = JsError("Error", "boom", "bigint")
  /\ last.kind = "throw" /\ results = <<>> /\ log = <<>>

(***************************************************************************)
(* C17: for wrapDefault, wrapDefaultAsync, wrap and wrapAsync, creating    *)
(* the wrapper invokes nothing; each call of the returned function with    *)
(* the arguments a invokes fn once, with a, and has the outcome (result,   *)
(* factory invocations, log calls) of the corresponding tryCatch* applied  *)
(* to () => fn(a), whatever the calls made before it.                      *)
(***************************************************************************)
WrapperCreated == last.op \in {"wrapDefault:create", "wrapDefaultAsync:create",
                               "wrap:create", "wrapAsync:create"}

WrappedCall == last.op \in {"wrapDefault", "wrap"}

WrappedAsyncCall == last.op \in {"wrapDefaultAsync", "wrapAsync"}

\* the call evaluated fn(...args) and is suspended at its await
WrappedAsyncSuspended == last.op = "await" /\ wrapper.kind \in {"wrapDefaultAsync", "wrapAsync"}

\* () => fn(a) written out for the functions of the model
ThunkOf(fn, a) ==
  IF fn.kind = "echo" THEN [kind |-> "const", x |-> JsUndefined, v |-> a]
  ELSE [kind |-> "throw", x |-> fn.x, v |-> UndefinedValue]

AsyncThunkOf(fn, a) ==
  IF fn.kind = "resolve" \/ (fn.kind = "rejectOdd" /\ a = 0)
  THEN [kind |-> "resolve", x |-> JsUndefined, v |-> a]
  ELSE [kind |-> IF fn.kind = "throw" THEN "throw" ELSE "reject", x |-> fn.x, v |-> UndefinedValue]

\* tryCatch* applied to () => fn(a) in the state before the wrapper call
Corresponding ==
  CASE last.op = "wrapDefault" ->
         ResultFactory_tryCatchDefault(last.pre, wrapper.logProperties, ThunkOf(wrapper.fn, last.arg))
    [] last.op = "wrap" ->
         ResultFactory_tryCatch(last.pre, ThunkOf(wrapper.fn, last.arg), wrapper.errorResultFactory)
    [] last.op = "wrapDefaultAsync" ->
         ResultFactory_tryCatchDefaultAsync_resume(
           IF wrapper.fn.kind = "throw"
           THEN CallAsyncThunk(last.pre, "fn", AsyncThunkOf(wrapper.fn, last.arg))
           ELSE Await(last.pre, AsyncThunkOf(wrapper.fn, last.arg)), wrapper.logProperties)
    [] last.op = "wrapAsync" ->
         ResultFactory_tryCatchAsync_resume(
           IF wrapper.fn.kind = "throw"
           THEN CallAsyncThunk(last.pre, "fn", AsyncThunkOf(wrapper.fn, last.arg))
           ELSE Await(last.pre, AsyncThunkOf(wrapper.fn, last.arg)), wrapper.errorResultFactory)

NotFnCall(c) == c.role # "fn"

SameOutcome(o) ==
  /\ last.kind = o.kind /\ last.ret = o.ret /\ last.thrown = o.thrown
  /\ results = o.m.results /\ details = o.m.details /\ log = o.m.log
  /\ SelectSeq(calls, NotFnCall) = SelectSeq(o.m.calls, NotFnCall)

\* fn was invoked once by the last step, with the arguments of the wrapper call
InvokedOnceWith(a) ==
  /\ Len(SelectSeq(NewCalls, IsFnCall)) = 1
  /\ \A i \in DOMAIN NewCalls :
       IsFnCall(NewCalls[i]) => NewCalls[i].fn = wrapper.fn /\ NewCalls[i].arg = a

C17_Wrappers ==
  /\ WrapperCreated => Machine = EmptyMachine /\ pending = <<>>
  /\ WrappedCall => InvokedOnceWith(last.arg) /\ SameOutcome(Corresponding)
  /\ WrappedAsyncSuspended => InvokedOnceWith(last.arg) /\ Len(NewCalls) = 1
  /\ WrappedAsyncCall =>
       /\ SameOutcome(Corresponding)
       /\ IF wrapper.fn.kind = "throw" THEN InvokedOnceWith(last.arg)
          ELSE SelectSeq(NewCalls, IsFnCall) = <<>>

\* a second call of a wrapper of a => a, with another argument, made a second Success
C17_Witness ==
  /\ WrappedCall /\ wrapper.fn.kind = "echo"
  /\ Len(SelectSeq(calls, IsFnCall)) = 2
  /\ calls[1].arg # last.arg
  /\ last.kind = "result" /\ results[last.ret].isOk /\ results[last.ret].value = last.arg
  /\ Len(results) = 2 /\ results[1].value = calls[1].arg

(***************************************************************************)
(* C18 (as claimed): the promise returned by tryCatchDefaultAsync and by a *)
(* wrapDefaultAsync wrapper never rejects; once fn has settled it resolves *)
(* to a Success with fn's resolved value, or to a Technical Failure        *)
(* (AssertionFailed for an AssertionFailedError) made from what fn threw   *)
(* or rejected with.                                                       *)
(***************************************************************************)
DefaultAsyncSettled == last.op \in {"tryCatchDefaultAsync", "wrapDefaultAsync"}

\* what fn of the settled call did: the function itself for a wrapper, else its recorded call
SettledFn ==
  IF last.op = "wrapDefaultAsync" THEN AsyncThunkOf(wrapper.fn, last.arg)
  ELSE LET fnCalls == SelectSeq(calls, IsFnCall) IN fnCalls[Len(fnCalls)].fn

C18_DefaultAsyncNeverRejects ==
  DefaultAsyncSettled =>
    /\ last.kind = "result"
    /\ IF SettledFn.kind = "resolve"
       THEN results[last.ret].isOk
       ELSE /\ results[last.ret].isError
            /\ details[results[last.ret].errorDetails].cls = ClassifiedAs(SettledFn.x)

\* fn rejected with an Error whose cause JSON.stringify rejects: the promise rejects
C18_Diverges ==
  /\ DefaultAsyncSettled /\ SettledFn.kind = "reject"
  /\ SettledFn.x = JsError("Error", "boom", "bigint")
  /\ last.kind = "throw" /\ results = <<>>

(***************************************************************************)
(* C19: errorInstanceId is stable under any sequence of reads.  An id      *)
(* supplied at construction is what every read returns and none is         *)
(* generated; otherwise the first read generates an id of the form         *)
(* [A-Z0-9]{4}-[A-Z0-9]{4} and every later read of the same details        *)
(* returns that value: an id, once there, is never replaced.               *)
(***************************************************************************)
IdCharacters == {ErrorUtils_errorInstanceIdCharacters[i] : i \in DOMAIN ErrorUtils_errorInstanceIdCharacters}

\* [A-Z0-9]{4}-[A-Z0-9]{4}
IsGeneratedForm(id) ==
  /\ Len(id) = 9
  /\ SubSeq(id, 5, 5) = "-"
  /\ \A i \in {1, 2, 3, 4, 6, 7, 8, 9} : SubSeq(id, i, i) \in IdCharacters

\* this step is a read of errorInstanceId of the details instance d
ReadsIdOf(d) ==
  /\ last'.op = "errorInstanceId" /\ last'.arg = d /\ steps' = steps + 1

C19_IdStable ==
  [][ /\ Len(details') >= Len(details)
      /\ \A d \in DOMAIN details :
           LET before == details[d].errorInstanceId
               after == details'[d].errorInstanceId
           IN /\ before # UNDEF => after = before
              /\ ReadsIdOf(d) =>
                   /\ last'.kind = "string" /\ last'.thrown = JsString(after)
                   /\ before = UNDEF => IsGeneratedForm(after)
                   /\ \A e \in DOMAIN details : e # d => details'[e] = details[e]
                   /\ [details' EXCEPT ![d].errorInstanceId = before] = details
              /\ ~ReadsIdOf(d) => after = before ]_vars

\* a second read of a generated id returned the id the first read generated
C19_Witness ==
  /\ last.op = "errorInstanceId" /\ steps = 2
  /\ IsGeneratedForm(last.pre.details[last.arg].errorInstanceId)
  /\ last.thrown = JsString(last.pre.details[last.arg].errorInstanceId)
  /\ details = last.pre.details

(***************************************************************************)
(* C20: formatErrorResult() returns "<formatted context> - <errorCode> -   *)
(* <errorMessage>", the formatted context being the context entries joined *)
(* with "." in order, or "UNKNOWN CONTEXT" when the context is absent or   *)
(* empty; context [Domain, App, Service, op], code TE, message boom gives  *)
(* "Domain.App.Service.op - TE - boom".                                    *)
(***************************************************************************)
\* the entries of ctx, in order, with a "." between neighbours
Dotted(ctx) ==
  LET upTo[i \in 0..Len(ctx)] ==
        IF i = 0 THEN "" ELSE IF i = 1 THEN ctx[1] ELSE upTo[i - 1] \o "." \o ctx[i]
  IN upTo[Len(ctx)]

FormattedAs(d) ==
  (IF d.hasContext /\ d.context # <<>> THEN Dotted(d.context) ELSE "UNKNOWN CONTEXT")
    \o " - " \o (IF d.errorCode = UNDEF THEN "" ELSE d.errorCode)
    \o " - " \o (IF d.errorMessage = UNDEF THEN defaultErrorMessage ELSE d.errorMessage)

ExampleDetails(hasCtx, ctx) ==
  AbstractErrorResultDetails("TechnicalErrorResultDetails",
                             ConstructorOptions(hasCtx, ctx, "TE", "boom", UNDEF, UNDEF), NoResponse)

C20_FormatErrorResult ==
  /\ last.op = "formatErrorResult" =>
       /\ last.kind = "string"
       /\ last.thrown = JsString(FormattedAs(details[last.arg]))
       /\ Machine = last.pre
  /\ AbstractErrorResultDetails_formatErrorResult(
        ExampleDetails(TRUE, <<"Domain", "App", "Service", "op">>)) = "Domain.App.Service.op - TE - boom"
  /\ AbstractErrorResultDetails_formatErrorResult(ExampleDetails(TRUE, <<>>)) = "UNKNOWN CONTEXT - TE - boom"
  /\ AbstractErrorResultDetails_formatErrorResult(ExampleDetails(FALSE, <<>>)) = "UNKNOWN CONTEXT - TE - boom"

\* a Failure with a context and a code was formatted
C20_Witness ==
  /\ last.op = "formatErrorResult"
  /\ details[last.arg].hasContext /\ Len(details[last.arg].context) >= 2
  /\ details[last.arg].errorCode # UNDEF
  /\ last.thrown = JsString(Dotted(details[last.arg].context) \o " - " \o details[last.arg].errorCode
                              \o " - " \o Details_errorMessage(details[last.arg]))

\* a Failure without context was formatted
C20_WitnessUnknown ==
  /\ last.op = "formatErrorResult" /\ ~details[last.arg].hasContext
  /\ SubSeq(last.thrown.text, 1, 15) = "UNKNOWN CONTEXT"

(***************************************************************************)
(* C21: an ApiError built from the response r has errorMessage r.title,    *)
(* or r.detail when r has no title; its errorInstanceId is r.instance; its *)
(* errorCode, context and correlationId are those of the caller's options; *)
(* and errorResponse is r in full, extension fields included.              *)
(***************************************************************************)
ApiErrorBuilt == last.op \in {"apiError", "apiErrorNoLog"}

C21_ApiErrorFields ==
  ApiErrorBuilt =>
    /\ last.kind = "result" /\ results[last.ret].isError
    /\ LET d == details[results[last.ret].errorDetails]
           r == last.input.response
       IN /\ d.cls = "ApiErrorResultDetails"
          /\ r.title # UNDEF => Details_errorMessage(d) = r.title
          /\ r.title = UNDEF /\ r.detail # UNDEF => Details_errorMessage(d) = r.detail
          /\ d.errorInstanceId = r.instance
          /\ r.instance # UNDEF =>
               \A draws \in Draws :
                 AbstractErrorResultDetails_errorInstanceId(
                   Machine, results[last.ret].errorDetails, draws).thrown = JsString(r.instance)
          /\ d.errorCode = last.input.errorCode
          /\ d.hasContext = last.input.options.hasContext
          /\ d.context = last.input.options.context
          /\ d.correlationId = last.input.options.correlationId
          /\ d.errorResponse = r

\* a response with title, detail, instance and an extension field, and options that
\* carry an errorInstanceId of their own
C21_Witness ==
  /\ ApiErrorBuilt /\ last.op = "apiError"
  /\ last.input.response = ApiResponse("Not Found", "no such item", "inst-1", "traceId")
  /\ last.input.options.errorInstanceId = "err-1"
  /\ details[results[last.ret].errorDetails].errorMessage = "Not Found"
  /\ details[results[last.ret].errorDetails].errorInstanceId = "inst-1"

(***************************************************************************)
(* C22 (as claimed): errorMessage of every details instance is a defined   *)
(* string: the message supplied at construction when there is one, else    *)
(* the generic message "Sorry, something went wrong."; so it is for a      *)
(* Failure built by technicalError / assertionFailedError with an          *)
(* undefined message and for an ApiError whose response has neither title  *)
(* nor detail.                                                             *)
(***************************************************************************)
UndefinedMessageHelper ==
  /\ last.op \in {"technicalError", "assertionFailedError"}
  /\ last.input.message = JsUndefined
  /\ last.kind = "result"

EmptyResponseApiError ==
  /\ ApiErrorBuilt /\ last.kind = "result"
  /\ last.input.response.title = UNDEF /\ last.input.response.detail = UNDEF

C22_ErrorMessageDefined ==
  /\ \A i \in DOMAIN details :
       /\ Details_errorMessage(details[i]) # UNDEF
       /\ Details_errorMessage(details[i]) =
            IF details[i].errorMessage # UNDEF THEN details[i].errorMessage
            ELSE "Sorry, something went wrong."
  /\ UndefinedMessageHelper =>
       Details_errorMessage(details[results[last.ret].errorDetails]) = "Sorry, something went wrong."
  /\ EmptyResponseApiError =>
       Details_errorMessage(details[results[last.ret].errorDetails]) = "Sorry, something went wrong."

\* an undefined message with an extra param: the text "undefined" is concatenated
C22_Diverges ==
  /\ UndefinedMessageHelper /\ last.op = "technicalError"
  /\ last.input.optionalParams = <<"p1">>
  /\ Details_errorMessage(details[results[last.ret].errorDetails]) = "undefined - [\"p1\"]"

(***************************************************************************)
(* C23 (as claimed): for each of the five details classes V, V.isInstance  *)
(* (x) is true only when x is exactly a V: false for null, undefined and   *)
(* non-objects, for instances of the other four classes, for a plain       *)
(* object with V's fields and tag, and for a value related to V only       *)
(* through inheritance.                                                    *)
(***************************************************************************)
IsInstanceCalled == probe.fn = "isInstance"

\* x was made by new V(...) itself
ExactlyA(x, V) == x.kind = "object" /\ x.chain # <<>> /\ x.chain[1] = V

C23_IsInstanceExact ==
  IsInstanceCalled =>
    (probe.ret = TRUE => ExactlyA(probe.args[2], probe.args[1]))

\* an instance of a subclass of TechnicalErrorResultDetails passes its guard
C23_Diverges ==
  /\ IsInstanceCalled
  /\ probe.args = <<"TechnicalErrorResultDetails", InstanceOfSubclass("TechnicalErrorResultDetails")>>
  /\ probe.ret = TRUE

(***************************************************************************)
(* C24 (as claimed): Results and details instances are immutable after     *)
(* construction: no operation, guard, unwrap, formatErrorResult call or    *)
(* property read changes a stored field of a Result or of the details it   *)
(* holds.                                                                  *)
(***************************************************************************)
ResultsKept == \A i \in DOMAIN results : i \in DOMAIN results' /\ results'[i] = results[i]

C24_Immutable ==
  [][ /\ ResultsKept
      /\ \A d \in DOMAIN details : d \in DOMAIN details' /\ details'[d] = details[d] ]_vars

(***************************************************************************)
(* C24 (amended): the same, except that the first read of errorInstanceId  *)
(* of a details instance constructed without one stores the generated id   *)
(* in that instance; every other stored field of every Result and details  *)
(* instance keeps its value in every step.                                 *)
(***************************************************************************)
C24_ImmutableButLazyId ==
  [][ /\ ResultsKept
      /\ \A d \in DOMAIN details :
           /\ d \in DOMAIN details'
           /\ \/ details'[d] = details[d]
              \/ /\ last'.op = "errorInstanceId" /\ last'.arg = d
                 /\ details[d].errorInstanceId = UNDEF
                 /\ details'[d] = [details[d] EXCEPT !.errorInstanceId = last'.thrown.text] ]_vars

\* a read of errorInstanceId wrote the generated id into the details the Failure holds
C24_Witness ==
  /\ last.op = "errorInstanceId"
  /\ last.pre.details[last.arg].errorInstanceId = UNDEF
  /\ details[last.arg].errorInstanceId = last.thrown.text
  /\ details # last.pre.details /\ results = last.pre.results

(***************************************************************************)
(* C25 (as claimed): each details instance is held by at most one Failure: *)
(* after any sequence of factory calls and Result operations, no two       *)
(* distinct Failure objects hold the same details instance.                *)
(***************************************************************************)
C25_DetailsNotShared ==
  \A i, j \in DOMAIN results :
    (i # j /\ results[i].isError /\ results[j].isError) =>
      results[i].errorDetails # results[j].errorDetails

\* mapError with a mapper that returns the details it was given
C25_Diverges ==
  /\ last.op = "mapError" /\ last.kind = "result" /\ last.ret # last.recv
  /\ results[last.recv].isError /\ results[last.ret].isError
  /\ results[last.ret].errorDetails = results[last.recv].errorDetails
  /\ Len(NewCalls) = 1 /\ NewCalls[1].fn.kind = "id"

(***************************************************************************)
(* C26 (as claimed): every custom tag table in which a tag equals a        *)
(* standard tag is rejected by the build-time check, and for every custom  *)
(* table the check accepts, the merged table contains all five standard    *)
(* tags and gives pairwise distinct tag values to all its variants.        *)
(***************************************************************************)
Built == probe.fn = "build"

StandardTags == {"ApiError", "AssertionFailedError", "ShortCircuitedError", "TechnicalError", "UserError"}

PairwiseDistinct(table) ==
  \A k1, k2 \in DOMAIN table : k1 # k2 => table[k1] # table[k2]

C26_NoDuplicateTags ==
  Built =>
    LET custom == probe.args[1]
    IN /\ (\E k \in DOMAIN custom : custom[k] \in StandardTags) => ~probe.ret.accepted
       /\ probe.ret.accepted =>
            /\ StandardTags \subseteq TagValues(probe.ret.tags)
            /\ PairwiseDistinct(probe.ret.tags)

\* two custom variants with the same custom tag pass the check
C26_Diverges ==
  /\ Built /\ probe.ret.accepted
  /\ DOMAIN probe.args[1] = {"MyCustomError", "OtherCustomError"}
  /\ probe.ret.tags["MyCustomError"] = probe.ret.tags["OtherCustomError"]

\* a custom entry under the key of a standard tag passes the check and replaces that tag
C26_DivergesReplaced ==
  /\ Built /\ probe.ret.accepted
  /\ DOMAIN probe.args[1] = {"ApiError"}
  /\ "ApiError" \notin TagValues(probe.ret.tags)

(***************************************************************************)
(* C27 (as claimed): ErrorUtils.toErrorString(x) converts every value to a *)
(* string and never throws: a string is returned unchanged, so applying it *)
(* twice equals applying it once; an Error is rendered as a serialization  *)
(* of its message, name, stack and cause; every other value is serialized  *)
(* generically, with a raw string coercion when serialization fails.       *)
(***************************************************************************)
ToErrorStringCalled == probe.fn = "toErrorString"

C27_ToErrorString ==
  ToErrorStringCalled =>
    LET x == probe.args[1]
        r == probe.ret
    IN /\ ~r.threw
       /\ r.s # UNDEF
       /\ x.ty = "string" =>
            /\ r.s = x.text
            /\ ErrorUtils_toErrorString(JsString(r.s)) = r
       /\ IsErrorInstance(x) =>
            r.s = "{\"message\":\"" \o x.text \o "\",\"name\":\"" \o x.cls \o "\",\"stack\":\"...\"}"
       /\ (x.ty # "string" /\ ~IsErrorInstance(x)) =>
            r.s = IF JSON_stringify(x).threw THEN String_of(x).s ELSE JSON_stringify(x).s

\* an Error whose cause is a BigInt: JSON.stringify throws outside the try block
C27_Diverges ==
  /\ ToErrorStringCalled
  /\ probe.args[1] = JsError("Error", "boom", "bigint")
  /\ probe.ret.threw

\* undefined: JSON.stringify returns undefined, which is no string
C27_DivergesUndefined ==
  /\ ToErrorStringCalled /\ probe.args[1] = JsUndefined
  /\ ~probe.ret.threw /\ probe.ret.s = UNDEF

(***************************************************************************)
(* C28 (as claimed): with several tryCatchAsync / tryCatchDefaultAsync     *)
(* calls or async wrapper calls in flight, whose functions settle in any   *)
(* order, each call's promise settles once, only after its own function    *)
(* has settled, with the Success of its own function's resolved value or   *)
(* the Failure derived from its own function's rejection; no Result exists *)
(* before that point, and no call's Result depends on the order in which   *)
(* the other calls settle.                                                 *)
(***************************************************************************)
AsyncWrapperRun == wrapper.kind \in {"wrapDefaultAsync", "wrapAsync"}

AsyncWrapperSettled == last.op \in {"wrapDefaultAsync", "wrapAsync"}

\* what the function of the settled call did with the argument of that call
OwnFn == AsyncThunkOf(wrapper.fn, last.arg)

\* the wrapper calls made so far
FnCalls == SelectSeq(calls, IsFnCall)

C28_AsyncCallsIndependent ==
  /\ AsyncWrapperRun =>
       \* one Result per settled call, none for a call still in flight
       /\ Len(pending) <= Len(FnCalls)
       /\ Len(results) = Len(FnCalls) - Len(pending)
       /\ \A i \in DOMAIN pending :
            \E j \in DOMAIN calls :
              IsFnCall(calls[j]) /\ calls[j].arg = pending[i].arg /\ calls[j].kind = "promise"
  /\ AsyncWrapperSettled =>
       /\ last.kind = "result"
       /\ last.ret = Len(results)
       /\ IF OwnFn.kind = "resolve"
          THEN /\ results[last.ret].isOk
               /\ results[last.ret].value = last.arg
               /\ NewLogs = <<>>
          ELSE /\ results[last.ret].isError
               /\ IF last.op = "wrapDefaultAsync"
                  THEN details[results[last.ret].errorDetails].cls = ClassifiedAs(OwnFn.x)
                  ELSE /\ Len(SelectSeq(NewCalls, IsFactoryCall)) = 1
                       /\ \A i \in DOMAIN NewCalls :
                            IsFactoryCall(NewCalls[i]) =>
                              NewCalls[i].x = OwnFn.x /\ NewCalls[i].ret = last.ret

\* the second of two calls in flight rejected with an Error whose cause JSON.stringify
\* rejects, after the first resolved: its promise rejects
C28_Diverges ==
  /\ AsyncWrapperSettled /\ last.op = "wrapDefaultAsync"
  /\ wrapper.fn = Fn("rejectOdd", JsError("Error", "boom", "bigint"))
  /\ Len(FnCalls) = 2 /\ pending = <<>>
  /\ last.arg = 1 /\ last.kind = "throw"
  /\ Len(results) = 1 /\ results[1].isOk /\ results[1].value = 0

(***************************************************************************)
(* C29: every log call made by apiError, assertionFailedError,             *)
(* technicalError, userError or shortCircuitedError receives the context   *)
(* chain "ResultFactory - <Variant>ErrorResult" followed by the caller's   *)
(* context chain in order (that entry alone when the caller gave none) and *)
(* "ErrorCode: <code>" as its first trailing argument, followed by the     *)
(* extra params for technicalError / assertionFailedError; the caller's    *)
(* options and context are as they were: the Failure made after the log    *)
(* call carries the caller's context without the entry.                    *)
(***************************************************************************)
VariantName ==
  [ apiError |-> "Api", assertionFailedError |-> "AssertionFailed", technicalError |-> "Technical",
    userError |-> "User", shortCircuitedError |-> "ShortCircuited" ]

DefaultLoggingHelperCall == last.op \in DOMAIN VariantName

C29_LogContext ==
  DefaultLoggingHelperCall =>
    LET o == last.input.options
        callerContext == IF o.hasContext THEN o.context ELSE <<>>
    IN /\ \A i \in DOMAIN NewLogs :
            LET e == NewLogs[i]
            IN /\ e.ctx.hasContext
               /\ e.ctx.context =
                    <<"ResultFactory - " \o VariantName[last.op] \o "ErrorResult">> \o callerContext
               /\ e.ctx.correlationId = o.correlationId
               /\ e.ctx.errorInstanceId = o.errorInstanceId
               /\ e.params # <<>>
               /\ e.params[1] = "ErrorCode: " \o last.input.errorCode
               /\ Tail(e.params) =
                    IF last.op \in {"technicalError", "assertionFailedError"}
                    THEN last.input.optionalParams ELSE <<>>
       /\ last.kind = "result" =>
            /\ details[results[last.ret].errorDetails].hasContext = o.hasContext
            /\ details[results[last.ret].errorDetails].context = o.context

\* technicalError with a context chain of two entries and an extra param made its log call
C29_Witness ==
  /\ last.op = "technicalError" /\ Len(NewLogs) = 1
  /\ last.input.options.context = <<"Domain", "op">>
  /\ last.input.optionalParams = <<"p1">>
  /\ NewLogs[1].ctx.context = <<"ResultFactory - TechnicalErrorResult", "Domain", "op">>
  /\ NewLogs[1].params = <<"ErrorCode: TE", "p1">>

\* userError without a context made its log call
C29_WitnessNoContext ==
  /\ last.op = "userError" /\ Len(NewLogs) = 1 /\ ~last.input.options.hasContext
  /\ NewLogs[1].ctx.context = <<"ResultFactory - UserErrorResult">>

(***************************************************************************)
(* C30 (as claimed): for assertionFailedError, technicalError, userError   *)
(* and shortCircuitedError with logging not suppressed, and for the        *)
(* CatchDefault operations that call technicalError, the errorInstanceId   *)
(* and correlationId carried by the log call's context are those           *)
(* subsequently read from the returned Failure's details, whether or not   *)
(* the caller supplied an errorInstanceId.                                 *)
(***************************************************************************)
LoggedFailureOps ==
  {"assertionFailedError", "technicalError", "userError", "shortCircuitedError",
   "mapCatchDefault", "andThenCatchDefault", "orElseCatchDefault", "foldCatchDefault",
   "tryCatchDefault"}

\* the last call logged once and returned a Failure it made
LoggedFailure ==
  /\ last.op \in LoggedFailureOps
  /\ last.kind = "result" /\ last.ret > Len(last.pre.results)
  /\ results[last.ret].isError
  /\ Len(NewLogs) = 1 /\ NewLogs[1].origin # "caller"

C30_LogIdsMatchDetails ==
  LoggedFailure =>
    LET d == results[last.ret].errorDetails
    IN /\ details[d].correlationId = NewLogs[1].ctx.correlationId
       /\ \A r \in Draws :
            AbstractErrorResultDetails_errorInstanceId(Machine, d, r).thrown.text
              = NewLogs[1].ctx.errorInstanceId

\* no errorInstanceId was supplied: the log call carried none, and the id read from the
\* returned Failure's details is one generated at that read
C30_Diverges ==
  /\ last.op = "errorInstanceId" /\ steps = 1
  /\ Len(log) = 1 /\ log[1].prefix = "TECHNICAL_ERROR"
  /\ log[1].ctx.errorInstanceId = UNDEF
  /\ IsGeneratedForm(last.thrown.text)
  /\ last.pre.details[last.arg].errorInstanceId = UNDEF

====
